---- MODULE Spec2Model ----
(***************************************************************************)
(* A model of parts of rust-analyzer:                                      *)
(*   - the crate graph           (crates/ra_db/src/input.rs),              *)
(*   - the search add_dep runs, step by step (the same file),              *)
(*   - the local syntax pointer  (crates/ra_db/src/syntax_ptr.rs),         *)
(*   - function body lowering    (crates/ra_hir/src/expr.rs),              *)
(*   - keyword completion                                                  *)
(*       (crates/ra_analysis/src/completion/complete_keyword.rs),          *)
(*   - the impl blocks of a module and the query functions                 *)
(*       (crates/ra_hir/src/impl_block.rs, query_definitions.rs).          *)
(* Each part has its own specification (SpecGraph, SpecDfs, SpecPtr,       *)
(* SpecLower, SpecKw, SpecQuery); the variables of the other parts stay at *)
(* their idle values.                                                      *)
(***************************************************************************)
EXTENDS Integers, Sequences, FiniteSets, TLC

VARIABLES
    arena,      \* CrateGraph.arena: CrateId -> CrateData
    pre,        \* history: the arena before the last operation
    last,       \* history: the last operation, its arguments and its outcome
    nroots,     \* history: number of add_crate_root calls made so far
    d_graph,    \* CrateGraph.arena of the graph add_dep is stepped through on
    d_call,     \* the arguments of the add_dep call that is running or ran last
    d_stack,    \* the frames of dfs_find: the crate of each call and where its loop is
    d_visited,  \* the `visited` set of the running add_dep
    d_entered,  \* history: the crates whose dependencies the search went through, in order
    dpc,        \* where add_dep is: idle, running
    tree,       \* the syntax tree (SourceFileNode) pointers are resolved against
    ptr,        \* the LocalSyntaxPtr at hand
    origin,     \* history: the node `ptr` was made from, if it was made from `tree`
    curr,       \* resolve's local `curr`: a node of `tree`, named by its path
    ppc,        \* where the pointer's caller is: idle, made, running, returned, panicked
    def,        \* what the DefId of the body request resolves to: Cancelable<Def>
    fn_params,  \* the parameter list of the function lowered (a PARAM_LIST node), if any
    fn_tail,    \* the expression its body consists of; None for a function without body
    nwraps,     \* history: how many times the body's expression was wrapped
    bsm,        \* the BodySyntaxMapping computed for the function, once computed
    lpc,        \* where lowering is: editing, lowered, cancelled, no_body (the panic
                \* of a definition without body), panicked (a panic of the lowering)
    kw_body,    \* the expression the body of the function completed in consists of
    kw_ret,     \* whether that function declares a return type
    kw_nwraps,  \* history: how many times kw_body was wrapped
    kw_ctx,     \* the CompletionContext of the request, once there is one
    kw_acc,     \* Completions: the items collected for the request
    kpc,        \* where completion is: editing, completed
    q_items,    \* the items of the source file of the source root queried
    q_cancel,   \* the reads of the database that the engine answers with Canceled
    q_last      \* history: the query made last since the file or the cancelled reads
                \* changed, what was cancelled then, and its result

graphVars == <<arena, pre, last, nroots>>
dfsVars == <<d_graph, d_call, d_stack, d_visited, d_entered, dpc>>
ptrVars == <<tree, ptr, origin, curr, ppc>>
lowerVars == <<def, fn_params, fn_tail, nwraps, bsm, lpc>>
kwVars == <<kw_body, kw_ret, kw_nwraps, kw_ctx, kw_acc, kpc>>
queryVars == <<q_items, q_cancel, q_last>>

vars == <<arena, pre, last, nroots,
          d_graph, d_call, d_stack, d_visited, d_entered, dpc,
          tree, ptr, origin, curr, ppc,
          def, fn_params, fn_tail, nwraps, bsm, lpc,
          kw_body, kw_ret, kw_nwraps, kw_ctx, kw_acc, kpc,
          q_items, q_cancel, q_last>>

\* The idle values of each part's variables, for the other parts' specifications.
IdleGraph == arena = <<>> /\ pre = <<>> /\ last = <<>> /\ nroots = 0
IdleDfs ==
    /\ d_graph = <<>> /\ d_call = <<>> /\ d_stack = <<>>
    /\ d_visited = {} /\ d_entered = <<>> /\ dpc = "off"
IdlePtr == tree = <<>> /\ ptr = <<>> /\ origin = <<>> /\ curr = <<>> /\ ppc = "off"
IdleLower ==
    /\ def = <<>> /\ fn_params = <<>> /\ fn_tail = <<>>
    /\ nwraps = 0 /\ bsm = <<>> /\ lpc = "off"
IdleKw ==
    /\ kw_body = <<>> /\ kw_ret = FALSE /\ kw_nwraps = 0
    /\ kw_ctx = <<>> /\ kw_acc = <<>> /\ kpc = "off"

IdleQuery == q_items = <<>> /\ q_cancel = {} /\ q_last = <<>>

otherVarsOfGraph == <<dfsVars, ptrVars, lowerVars, kwVars, queryVars>>
otherVarsOfDfs == <<graphVars, ptrVars, lowerVars, kwVars, queryVars>>
otherVarsOfPtr == <<graphVars, dfsVars, lowerVars, kwVars, queryVars>>
otherVarsOfLower == <<graphVars, dfsVars, ptrVars, kwVars, queryVars>>
otherVarsOfKw == <<graphVars, dfsVars, ptrVars, lowerVars, queryVars>>
otherVarsOfQuery == <<graphVars, dfsVars, ptrVars, lowerVars, kwVars>>

(***************************************************************************)
(* Option<T>: None is the empty sequence, Some(x) the one-element sequence. *)
(***************************************************************************)
None == <<>>
Some(x) == <<x>>
IsSome(o) == Len(o) = 1
Unwrap(o) == o[1]

\* Cancelable<T> = Result<T, Canceled>, and the third way a call can end:
\* a panic.
Ok(v) == [tag |-> "Ok", value |-> v]
Canceled == [tag |-> "Canceled"]
Panic == [tag |-> "Panic"]
IsOk(r) == r.tag = "Ok"

\* The set of the elements of a sequence.
SeqRange(q) == {q[i] : i \in 1 .. Len(q)}

\* ------------------------------------------------------------------------
\* Crate graph
\* ------------------------------------------------------------------------

\* Bounds of the model.
MaxCrates == 3
MaxDeps == 3

\* Inputs: FileId values and dependency names.
Files == {1, 2}
Names == {"a", "b"}
\* CrateId arguments tried by the callers: the ids 0..MaxCrates-1; an id is
\* unallocated as long as fewer crates have been added.
CrateIds == 0 .. (MaxCrates - 1)

EmptyMap == [x \in {} |-> 0]

\* FxHashMap::insert: the map with k bound to v.
MapInsert(m, k, v) == [x \in (DOMAIN m) \cup {k} |-> IF x = k THEN v ELSE m[x]]

\* CrateData::new
CrateData_new(file_id) == [file_id |-> file_id, dependencies |-> <<>>]

\* Mutant of CrateData_add_dep: the dependency is put in front.
CrateData_add_dep_front(data, name, crate_id) ==
    [data EXCEPT !.dependencies = <<[crate_id |-> crate_id, name |-> name]>> \o @]

\* CrateData::add_dep: push at the end of the vector.
CrateData_add_dep(data, name, crate_id) ==
    [data EXCEPT !.dependencies = Append(@, [crate_id |-> crate_id, name |-> name])]

\* Mutant of NextCrateId: ids counted from 1.
NextCrateId_from_one(g) == Cardinality(DOMAIN g) + 1

\* The id add_crate_root picks: arena.len() as u32.  The cast truncates only
\* from 2^32 entries on, far above MaxCrates, so it is the identity here.
NextCrateId(g) == Cardinality(DOMAIN g)

\* CrateGraph::dfs_find(target, from, visited).  The result carries the
\* answer, the visited set as left by the call, and whether the call
\* panicked on indexing the arena with an id that is not a key.
RECURSIVE dfs_find(_, _, _, _)
RECURSIVE dfs_loop(_, _, _, _, _)

\* Mutant of dfs_loop: the search returns what the first dependency's
\* subtree answers instead of going on to the next dependency.
dfs_loop_first_only(g, target, deps, i, visited) ==
    IF i > Len(deps)
    THEN [found |-> FALSE, visited |-> visited, panic |-> FALSE]
    ELSE LET crate_id == deps[i].crate_id IN
         IF crate_id = target
         THEN [found |-> TRUE, visited |-> visited, panic |-> FALSE]
         ELSE dfs_find(g, target, crate_id, visited)

\* The `for dep in self.dependencies(from)` loop of dfs_find, from the i-th
\* dependency on.
dfs_loop(g, target, deps, i, visited) ==
    IF i > Len(deps)
    THEN [found |-> FALSE, visited |-> visited, panic |-> FALSE]
    ELSE LET crate_id == deps[i].crate_id IN
         IF crate_id = target
         THEN [found |-> TRUE, visited |-> visited, panic |-> FALSE]
         ELSE LET r == dfs_find(g, target, crate_id, visited) IN
              IF r.panic \/ r.found
              THEN r
              ELSE dfs_loop(g, target, deps, i + 1, r.visited)

dfs_find(g, target, from, visited) ==
    IF from \in visited
    THEN [found |-> FALSE, visited |-> visited, panic |-> FALSE]
    ELSE IF from \notin DOMAIN g
         THEN [found |-> FALSE, visited |-> visited \cup {from}, panic |-> TRUE]
         ELSE dfs_loop(g, target, g[from].dependencies, 1, visited \cup {from})

\* CrateGraph::add_crate_root: the graph after the call, the id returned and
\* whether the assertion held.  The insertion precedes the assertion.
add_crate_root(g, file_id) ==
    LET crate_id == NextCrateId(g)
        prev == IF crate_id \in DOMAIN g THEN Some(g[crate_id]) ELSE None
    IN [arena |-> MapInsert(g, crate_id, CrateData_new(file_id)),
        outcome |-> IF IsSome(prev) THEN "panic" ELSE "ok",
        ret |-> Some(crate_id)]

\* Mutant of add_dep: the target of the edge is not looked at, so an edge to
\* an id that is not a key of the arena is stored.
add_dep_unchecked_to(g, from, name, to) ==
    LET r == IF to \in DOMAIN g THEN dfs_find(g, from, to, {})
             ELSE [found |-> FALSE, visited |-> {}, panic |-> FALSE] IN
    IF r.panic \/ r.found \/ from \notin DOMAIN g
    THEN [arena |-> g, outcome |-> "panic"]
    ELSE [arena |-> [g EXCEPT ![from] = CrateData_add_dep(@, name, to)],
          outcome |-> "ok"]

\* CrateGraph::add_dep: the graph after the call and whether it panicked
\* (a cycle found, or an id that is not a key of the arena).
add_dep(g, from, name, to) ==
    LET r == dfs_find(g, from, to, {}) IN
    IF r.panic \/ r.found \/ from \notin DOMAIN g
    THEN [arena |-> g, outcome |-> "panic"]
    ELSE [arena |-> [g EXCEPT ![from] = CrateData_add_dep(@, name, to)],
          outcome |-> "ok"]

\* CrateGraph::is_empty
is_empty(g) == DOMAIN g = {}

\* CrateGraph::crate_root: Some(file), or None for the panic of indexing the
\* arena with an id that is not a key.
crate_root(g, crate_id) ==
    IF crate_id \in DOMAIN g THEN Some(g[crate_id].file_id) ELSE None

\* Mutant of crate_id_for_crate_root: the find closure ignores file_id, so
\* the first entry of the iteration is returned.
crate_id_for_crate_root_any(g, file_id) ==
    IF DOMAIN g = {} THEN {None} ELSE {Some(c) : c \in DOMAIN g}

\* CrateGraph::crate_id_for_crate_root: the first entry, in the hash map's
\* iteration order, whose root is file_id.  The iteration order is not fixed
\* by the code, so any matching entry may be the one found: the operator
\* gives the set of results the call can have.
crate_id_for_crate_root(g, file_id) ==
    LET matching == {c \in DOMAIN g : g[c].file_id = file_id} IN
    IF matching = {} THEN {None} ELSE {Some(c) : c \in matching}

\* CrateGraph::dependencies: Some(the dependencies, in the vector's order),
\* or None for the panic of indexing the arena with an id that is not a key.
dependencies(g, crate_id) ==
    IF crate_id \in DOMAIN g THEN Some(g[crate_id].dependencies) ELSE None

\* The uniform record of an operation.
Op(op, a, b, name, file, outcome, ret) ==
    [op |-> op, a |-> a, b |-> b, name |-> name, file |-> file,
     outcome |-> outcome, ret |-> ret]

NoOp == Op("none", 0, 0, "", 0, "ok", None)

\* Number of dependency edges stored in the graph.
NumDeps(g) ==
    LET RECURSIVE Sum(_)
        Sum(S) == IF S = {} THEN 0
                  ELSE LET c == CHOOSE x \in S : TRUE
                       IN Len(g[c].dependencies) + Sum(S \ {c})
    IN Sum(DOMAIN g)

Call_add_crate_root(file_id) ==
    /\ nroots < MaxCrates
    /\ LET r == add_crate_root(arena, file_id) IN
          /\ arena' = r.arena
          /\ last' = Op("add_crate_root", 0, 0, "", file_id, r.outcome, r.ret)
    /\ pre' = arena
    /\ nroots' = nroots + 1
    /\ UNCHANGED otherVarsOfGraph

Call_add_dep(from, name, to) ==
    /\ NumDeps(arena) < MaxDeps
    /\ LET r == add_dep(arena, from, name, to) IN
          /\ arena' = r.arena
          /\ last' = Op("add_dep", from, to, name, 0, r.outcome, None)
    /\ pre' = arena
    /\ UNCHANGED nroots
    /\ UNCHANGED otherVarsOfGraph

Call_crate_root(crate_id) ==
    /\ LET r == crate_root(arena, crate_id) IN
       last' = Op("crate_root", crate_id, 0, "", 0,
                  IF IsSome(r) THEN "ok" ELSE "panic", r)
    /\ pre' = arena
    /\ UNCHANGED <<arena, nroots>>
    /\ UNCHANGED otherVarsOfGraph

Call_crate_id_for_crate_root(file_id) ==
    /\ \E r \in crate_id_for_crate_root(arena, file_id) :
           last' = Op("crate_id_for_crate_root", 0, 0, "", file_id, "ok", r)
    /\ pre' = arena
    /\ UNCHANGED <<arena, nroots>>
    /\ UNCHANGED otherVarsOfGraph

Call_dependencies(crate_id) ==
    /\ LET r == dependencies(arena, crate_id) IN
       last' = Op("dependencies", crate_id, 0, "", 0,
                  IF IsSome(r) THEN "ok" ELSE "panic", r)
    /\ pre' = arena
    /\ UNCHANGED <<arena, nroots>>
    /\ UNCHANGED otherVarsOfGraph

Call_is_empty ==
    /\ last' = Op("is_empty", 0, 0, "", 0, "ok", Some(is_empty(arena)))
    /\ pre' = arena
    /\ UNCHANGED <<arena, nroots>>
    /\ UNCHANGED otherVarsOfGraph

\* CrateGraph::default()
InitGraph ==
    /\ IdleQuery
    /\ IdleDfs
    /\ IdlePtr
    /\ IdleLower
    /\ IdleKw
    /\ arena = EmptyMap
    /\ pre = EmptyMap
    /\ last = NoOp
    /\ nroots = 0

NextGraph ==
    \/ \E f \in Files : Call_add_crate_root(f)
    \/ \E from \in CrateIds, to \in CrateIds, n \in Names : Call_add_dep(from, n, to)
    \/ \E c \in CrateIds : Call_crate_root(c)
    \/ \E f \in Files : Call_crate_id_for_crate_root(f)
    \/ \E c \in CrateIds : Call_dependencies(c)
    \/ Call_is_empty

SpecGraph == InitGraph /\ [][NextGraph]_vars

\* ------------------------------------------------------------------------
\* Crate graph: properties
\* ------------------------------------------------------------------------

\* The crates one dependency edge away from a crate of S.
Successors(g, S) ==
    {g[c].dependencies[i].crate_id : <<c, i>> \in
        {<<c, i>> \in (S \cap DOMAIN g) \X (1 .. MaxDeps + 1) : i <= Len(g[c].dependencies)}}

\* The crates reachable from crate a along one or more dependency edges
\* (the least set holding a's successors and closed under Successors).
ReachSet(g, a) ==
    LET RECURSIVE Grow(_)
        Grow(R) == LET R2 == R \cup Successors(g, R)
                   IN IF R2 = R THEN R ELSE Grow(R2)
    IN Grow(Successors(g, {a}))

LastIs(op) == last.op = op
LastOk(op) == last.op = op /\ last.outcome = "ok"
NewDep == [crate_id |-> last.b, name |-> last.name]

\* C1: after any sequence of add_crate_root and non-failing add_dep calls no
\* crate can reach itself along one or more dependency edges.
C1_Acyclic == \A c \in DOMAIN arena : c \notin ReachSet(arena, c)

\* C2: an add_dep(from, name, to) call on allocated crates whose edge would
\* close a cycle (to is from, or to already reaches from) panics and leaves
\* the graph exactly as it was.
C2_CycleRejectedUnchanged ==
    (/\ LastIs("add_dep")
     /\ last.a \in DOMAIN pre
     /\ last.b \in DOMAIN pre
     /\ (last.a = last.b \/ last.a \in ReachSet(pre, last.b)))
    => (last.outcome = "panic" /\ arena = pre)

\* C3: add_dep(from, name, to) on allocated crates is rejected exactly when
\* `to` reaches `from` along one or more existing dependency edges; otherwise
\* it succeeds, also when `to` was already reachable from `from`.
C3_RejectedIffReachable ==
    (/\ LastIs("add_dep")
     /\ last.a \in DOMAIN pre
     /\ last.b \in DOMAIN pre)
    => (last.outcome = "panic" <=> last.a \in ReachSet(pre, last.b))

\* A successful add_dep whose target was already reachable from its source,
\* though not by a direct edge (a second path to the crate).
C3_Witness ==
    /\ LastOk("add_dep")
    /\ last.b \in ReachSet(pre, last.a)
    /\ last.b \notin Successors(pre, {last.a})
    /\ last.a # last.b

\* C4: add_crate_root never fails and assigns ids densely from 0: the k-th
\* call returns CrateId(k-1) whatever add_dep calls are interleaved, the
\* assertion on the previous entry never fires, and crate_root of the id
\* returned is the file passed in.
C4_DenseIds ==
    /\ DOMAIN arena = 0 .. (nroots - 1)
    /\ LastIs("add_crate_root") =>
          /\ last.outcome = "ok"
          /\ last.ret = Some(nroots - 1)
          /\ Unwrap(last.ret) \notin DOMAIN pre
          /\ crate_root(arena, Unwrap(last.ret)) = Some(last.file)

\* The third crate is added after a dependency edge, with the file that is
\* already the root of another crate.
C4_Witness ==
    /\ LastOk("add_crate_root")
    /\ nroots = 3
    /\ NumDeps(pre) > 0
    /\ \E c \in DOMAIN pre : pre[c].file_id = last.file

\* C5: a non-failing add_dep(from, name, to) appends exactly one
\* Dependency{name, crate_id: to} at the end of from's list and changes
\* nothing else; add_crate_root leaves every existing crate as it was; so
\* dependencies(c) keeps the edges in the order in which they were added.
C5_Frame ==
    /\ LastOk("add_dep") =>
          /\ DOMAIN arena = DOMAIN pre
          /\ \A c \in DOMAIN pre : arena[c].file_id = pre[c].file_id
          /\ \A c \in DOMAIN pre \ {last.a} : arena[c].dependencies = pre[c].dependencies
          /\ Len(arena[last.a].dependencies) = Len(pre[last.a].dependencies) + 1
          /\ \A i \in 1 .. Len(pre[last.a].dependencies) :
                 arena[last.a].dependencies[i] = pre[last.a].dependencies[i]
          /\ arena[last.a].dependencies[Len(arena[last.a].dependencies)] = NewDep
          /\ dependencies(arena, last.a) =
                 Some(Append(Unwrap(dependencies(pre, last.a)), NewDep))
    /\ LastIs("add_crate_root") =>
          \A c \in DOMAIN pre : c \in DOMAIN arena /\ arena[c] = pre[c]

\* A dependency is appended to a list that already holds another one.
C5_Witness ==
    /\ LastOk("add_dep")
    /\ Len(pre[last.a].dependencies) >= 1
    /\ pre[last.a].dependencies[1] # NewDep
    /\ Cardinality(DOMAIN arena) >= 2

\* C6: crate_id_for_crate_root(file) returns Some(id) with
\* crate_root(id) = file whenever some crate has root `file`, and None
\* exactly when no crate has `file` as its root.
C6_Lookup ==
    LastIs("crate_id_for_crate_root") =>
        /\ IsSome(last.ret) =>
               /\ Unwrap(last.ret) \in DOMAIN arena
               /\ crate_root(arena, Unwrap(last.ret)) = Some(last.file)
        /\ (last.ret = None) <=> (\A c \in DOMAIN arena : arena[c].file_id # last.file)

\* The lookup finds a crate while another crate has the same root and a
\* third one has a different root.
C6_Witness ==
    /\ LastIs("crate_id_for_crate_root")
    /\ IsSome(last.ret)
    /\ \E c \in DOMAIN arena : c # Unwrap(last.ret) /\ arena[c].file_id = last.file
    /\ \E c \in DOMAIN arena : arena[c].file_id # last.file

\* C30: add_dep(from, name, to) with `from` or `to` not an allocated crate
\* panics and leaves the graph as it was; so every Dependency stored in the
\* graph refers to an allocated crate, after whatever operations.
C30_OnlyAllocated ==
    /\ (/\ LastIs("add_dep")
        /\ (last.a \notin DOMAIN pre \/ last.b \notin DOMAIN pre))
       => (last.outcome = "panic" /\ arena = pre)
    /\ \A c \in DOMAIN arena :
           \A i \in 1 .. Len(arena[c].dependencies) :
               arena[c].dependencies[i].crate_id \in DOMAIN arena

\* add_dep was called on a crate that has a dependency, with a target that
\* is not allocated, while another crate id is.
C30_Witness ==
    /\ LastIs("add_dep")
    /\ last.outcome = "panic"
    /\ last.a \in DOMAIN pre
    /\ last.b \notin DOMAIN pre
    /\ Len(pre[last.a].dependencies) >= 1
    /\ arena = pre

\* ------------------------------------------------------------------------
\* Crate graph: the search of add_dep, one step at a time
\* ------------------------------------------------------------------------
\* A frame of d_stack is a call of dfs_find: the crate it was called with as
\* `from`, and the index i of the dependency its loop is at; i = 0 before
\* `visited.insert(from)`.

Frame(crate, i) == [crate |-> crate, i |-> i]

\* Mutant of dfs_enter: the crate is not put into `visited`.
dfs_enter_no_mark(visited, from) == [fresh |-> from \notin visited, visited |-> visited]

\* `visited.insert(from)`: whether from was new, and the set afterwards.
dfs_enter(visited, from) ==
    [fresh |-> from \notin visited, visited |-> visited \cup {from}]

Dfs_add_crate_root(file_id) ==
    /\ dpc = "idle"
    /\ Cardinality(DOMAIN d_graph) < MaxCrates
    /\ d_graph' = add_crate_root(d_graph, file_id).arena
    /\ UNCHANGED <<d_call, d_stack, d_visited, d_entered, dpc>>
    /\ UNCHANGED otherVarsOfDfs

\* add_dep up to its call of dfs_find(from, to, &mut visited).
Dfs_add_dep_enter(from, name, to) ==
    /\ dpc = "idle"
    /\ NumDeps(d_graph) < MaxDeps
    /\ d_call' = [from |-> from, name |-> name, to |-> to, outcome |-> "running"]
    /\ d_stack' = <<Frame(to, 0)>>
    /\ d_visited' = {}
    /\ d_entered' = <<>>
    /\ dpc' = "running"
    /\ UNCHANGED d_graph
    /\ UNCHANGED otherVarsOfDfs

\* The rest of add_dep once dfs_find has answered: the panic on a cycle, or
\* `self.arena.get_mut(&from).unwrap().add_dep(name, to)`.
Dfs_add_dep_finish(found) ==
    /\ d_stack' = <<>>
    /\ dpc' = "idle"
    /\ IF found \/ d_call.from \notin DOMAIN d_graph
       THEN /\ d_graph' = d_graph
            /\ d_call' = [d_call EXCEPT !.outcome = "panic"]
       ELSE /\ d_graph' = [d_graph EXCEPT ![d_call.from] =
                               CrateData_add_dep(@, d_call.name, d_call.to)]
            /\ d_call' = [d_call EXCEPT !.outcome = "ok"]

\* The innermost call of dfs_find returns false: its caller goes on with
\* its loop, or add_dep goes on if there is no caller.
Dfs_return_false(rest) ==
    IF rest = <<>>
    THEN Dfs_add_dep_finish(FALSE)
    ELSE d_stack' = rest /\ UNCHANGED <<d_graph, d_call, dpc>>

\* One step of the innermost call of dfs_find.
Dfs_step ==
    /\ dpc = "running"
    /\ LET top == d_stack[Len(d_stack)]
           rest == SubSeq(d_stack, 1, Len(d_stack) - 1)
       IN
       IF top.i = 0
       THEN LET e == dfs_enter(d_visited, top.crate) IN
            /\ d_visited' = e.visited
            /\ IF ~e.fresh
               THEN Dfs_return_false(rest) /\ UNCHANGED d_entered
               ELSE IF top.crate \notin DOMAIN d_graph
               THEN \* `self.arena[&crate_id]` panics
                    /\ d_stack' = <<>>
                    /\ dpc' = "idle"
                    /\ d_call' = [d_call EXCEPT !.outcome = "panic"]
                    /\ UNCHANGED <<d_graph, d_entered>>
               ELSE /\ d_stack' = Append(rest, Frame(top.crate, 1))
                    /\ d_entered' = Append(d_entered, top.crate)
                    /\ UNCHANGED <<d_graph, d_call, dpc>>
       ELSE LET deps == d_graph[top.crate].dependencies IN
            /\ UNCHANGED <<d_visited, d_entered>>
            /\ IF top.i > Len(deps)
               THEN Dfs_return_false(rest)
               ELSE IF deps[top.i].crate_id = d_call.from
               THEN \* `return true`, in this call and in every caller
                    Dfs_add_dep_finish(TRUE)
               ELSE /\ d_stack' = rest \o <<Frame(top.crate, top.i + 1),
                                             Frame(deps[top.i].crate_id, 0)>>
                    /\ UNCHANGED <<d_graph, d_call, dpc>>
    /\ UNCHANGED otherVarsOfDfs

InitDfs ==
    /\ IdleQuery
    /\ IdleGraph
    /\ IdlePtr
    /\ IdleLower
    /\ IdleKw
    /\ d_graph = EmptyMap
    /\ d_call = [from |-> 0, name |-> "", to |-> 0, outcome |-> "none"]
    /\ d_stack = <<>>
    /\ d_visited = {}
    /\ d_entered = <<>>
    /\ dpc = "idle"

NextDfs ==
    \/ \E f \in Files : Dfs_add_crate_root(f)
    \/ \E from \in CrateIds, to \in CrateIds, n \in Names : Dfs_add_dep_enter(from, n, to)
    \/ Dfs_step

\* add_dep runs to its end once called.
SpecDfs == InitDfs /\ [][NextDfs]_vars /\ WF_vars(Dfs_step)

\* No crate is gone through twice by one search, and the recursion is never
\* deeper than one call per crate gone through plus the call that is turned
\* back at `visited.insert`.
C27_NoRevisit ==
    /\ Cardinality(SeqRange(d_entered)) = Len(d_entered)
    /\ SeqRange(d_entered) \subseteq DOMAIN d_graph
    /\ Len(d_stack) <= Len(d_entered) + 1

\* C27: the search add_dep runs ends, in every graph that add_crate_root
\* and add_dep calls can build, and goes through the dependencies of each
\* crate at most once; so every add_dep call returns or panics.
C27_Terminates == [](C27_NoRevisit) /\ ((dpc = "running") ~> (dpc = "idle"))

\* The search comes back to a crate it has gone through already, in a graph
\* in which a crate depends on itself, and is turned back.
C27_Witness ==
    /\ dpc = "running"
    /\ d_stack[Len(d_stack)].i = 0
    /\ d_stack[Len(d_stack)].crate \in d_visited
    /\ Len(d_entered) >= 2
    /\ \E c \in DOMAIN d_graph : c \in Successors(d_graph, {c})

\* ------------------------------------------------------------------------
\* Syntax trees
\* ------------------------------------------------------------------------
\* A syntax node is [kind, len, kids]: its SyntaxKind, the length of its
\* text and its children in order.  A token is a node without children whose
\* text is not empty; a node's text is the concatenation of its children's,
\* so that a node without any token below it is empty.  A node of a tree is
\* named by its path, the sequence of child indices leading to it from the
\* root; its range follows from the lengths of the nodes before it.

RECURSIVE SumLen(_)
SumLen(kids) == IF kids = <<>> THEN 0 ELSE kids[1].len + SumLen(Tail(kids))

Tok(kind) == [kind |-> kind, len |-> 1, kids |-> <<>>]
Node(kind, kids) == [kind |-> kind, len |-> SumLen(kids), kids |-> kids]

\* TextRange
Range(start, end) == [start |-> start, end |-> end]

\* TextRange::is_subrange: self lies within other.
is_subrange(self, other) == other.start <= self.start /\ self.end <= other.end

\* A node together with the offset its text starts at.
At(n, off) == [n |-> n, off |-> off]

\* SyntaxNode::range and SyntaxNode::kind of a located node.
range(ln) == Range(ln.off, ln.off + ln.n.len)
kind(ln) == ln.n.kind

\* SyntaxNode::children as located nodes, in order.
children(ln) ==
    [i \in 1 .. Len(ln.n.kids) |->
        At(ln.n.kids[i], ln.off + SumLen(SubSeq(ln.n.kids, 1, i - 1)))]

\* The located node a path leads to from the located node ln.
RECURSIVE Descend(_, _)
Descend(ln, path) ==
    IF path = <<>> THEN ln ELSE Descend(children(ln)[path[1]], Tail(path))

\* SourceFileNode::syntax: the root, at offset 0; and the node at a path.
Root(t) == At(t, 0)
NodeAt(t, path) == Descend(Root(t), path)

\* The paths of all nodes of the subtree of n.
RECURSIVE Paths(_)
Paths(n) ==
    {<<>>} \cup UNION {{<<i>> \o p : p \in Paths(n.kids[i])} : i \in 1 .. Len(n.kids)}

\* ------------------------------------------------------------------------
\* LocalSyntaxPtr
\* ------------------------------------------------------------------------

\* Bound of the model: the number of nodes of a tree.
MaxNodes == 4

\* Kinds of the trees enumerated: two node kinds and one token kind.
NodeKinds == {"A", "B"}
TokenKinds == {"t"}

\* All trees of exactly n nodes, and all sequences of trees of m nodes in all.
RECURSIVE TreesOfSize(_)
RECURSIVE ForestsOfSize(_)
ForestsOfSize(m) ==
    IF m = 0 THEN {<<>>}
    ELSE UNION {{<<t>> \o f : t \in TreesOfSize(k), f \in ForestsOfSize(m - k)} : k \in 1 .. m}
TreesOfSize(n) ==
    {Node(k, kids) : k \in NodeKinds, kids \in ForestsOfSize(n - 1)}
        \cup (IF n = 1 THEN {Tok(k) : k \in TokenKinds} ELSE {})

Trees == UNION {TreesOfSize(n) : n \in 1 .. MaxNodes}

\* LocalSyntaxPtr::new
LocalSyntaxPtr_new(ln) == [range |-> range(ln), kind |-> kind(ln)]

\* Mutant of PtrMatches: only the range is compared.
PtrMatches_range_only(p, ln) == range(ln) = p.range

\* The test of resolve's loop: range and kind are the pointer's.
PtrMatches(p, ln) == range(ln) = p.range /\ kind(ln) = p.kind

\* `curr.children().find(|it| self.range.is_subrange(&it.range()))`: the
\* index of the first child whose range holds the pointer's, or None.
FindChild(p, ln) ==
    LET hits == {i \in 1 .. Len(ln.n.kids) : is_subrange(p.range, range(children(ln)[i]))}
    IN IF hits = {} THEN None
       ELSE Some(CHOOSE i \in hits : \A j \in hits : i <= j)

\* LocalSyntaxPtr::new(node), for a node of the tree.
new(path) ==
    /\ ppc = "idle"
    /\ ptr' = LocalSyntaxPtr_new(NodeAt(tree, path))
    /\ origin' = Some(path)
    /\ ppc' = "made"
    /\ UNCHANGED <<tree, curr>>
    /\ UNCHANGED otherVarsOfPtr

\* A pointer that was made from a node of some other tree.
foreign_ptr(r, k) ==
    /\ ppc = "idle"
    /\ ptr' = [range |-> r, kind |-> k]
    /\ origin' = None
    /\ ppc' = "made"
    /\ UNCHANGED <<tree, curr>>
    /\ UNCHANGED otherVarsOfPtr

\* LocalSyntaxPtr::resolve, its entry: `let mut curr = file.syntax();`
resolve_enter ==
    /\ ppc = "made"
    /\ curr' = <<>>
    /\ ppc' = "running"
    /\ UNCHANGED <<tree, ptr, origin>>
    /\ UNCHANGED otherVarsOfPtr

\* LocalSyntaxPtr::resolve, one turn of its loop.
resolve_loop ==
    /\ ppc = "running"
    /\ LET ln == NodeAt(tree, curr) IN
       IF PtrMatches(ptr, ln)
       THEN ppc' = "returned" /\ curr' = curr
       ELSE LET c == FindChild(ptr, ln) IN
            IF IsSome(c)
            THEN ppc' = "running" /\ curr' = Append(curr, Unwrap(c))
            ELSE ppc' = "panicked" /\ curr' = curr
    /\ UNCHANGED <<tree, ptr, origin>>
    /\ UNCHANGED otherVarsOfPtr

\* The ranges within a text of n characters.
RangesUpTo(n) == {Range(a, b) : <<a, b>> \in {<<a, b>> \in (0 .. n) \X (0 .. n) : a <= b}}

InitPtr ==
    /\ IdleQuery
    /\ IdleGraph
    /\ IdleDfs
    /\ IdleLower
    /\ IdleKw
    /\ tree \in Trees
    /\ ptr = [range |-> Range(0, 0), kind |-> ""]
    /\ origin = None
    /\ curr = <<>>
    /\ ppc = "idle"

NextPtr ==
    \/ \E path \in Paths(tree) : new(path)
    \/ \E r \in RangesUpTo(tree.len + 1), k \in NodeKinds \cup TokenKinds : foreign_ptr(r, k)
    \/ resolve_enter
    \/ resolve_loop

\* resolve runs its loop to the end once entered.
SpecPtr == InitPtr /\ [][NextPtr]_vars /\ WF_vars(resolve_loop)

\* ------------------------------------------------------------------------
\* LocalSyntaxPtr: properties
\* ------------------------------------------------------------------------

PtrDone == ppc \in {"returned", "panicked"}

\* C7: for every tree T and node n of T, LocalSyntaxPtr::new(n).resolve(T)
\* returns n itself.
C7_RoundTrip ==
    (PtrDone /\ IsSome(origin)) => (ppc = "returned" /\ curr = Unwrap(origin))

\* What resolve may answer: a returned node has the pointer's range and kind,
\* and resolve does not return when the tree has no such node.
C8_ResolveSafe ==
    /\ ppc = "returned" => /\ range(NodeAt(tree, curr)) = ptr.range
                           /\ kind(NodeAt(tree, curr)) = ptr.kind
    /\ (PtrDone /\ \A path \in Paths(tree) :
                       LocalSyntaxPtr_new(NodeAt(tree, path)) # ptr)
           => ppc = "panicked"

\* C8: resolve against any finite tree terminates, and either returns a node
\* whose range and kind are the pointer's or panics; it panics whenever the
\* tree has no node with that range and kind.
C8_Resolve == [](C8_ResolveSafe) /\ ((ppc = "running") ~> PtrDone)

\* resolve went down at least one level and then panicked, on a pointer
\* that no node of the tree matches.
C8_Witness ==
    /\ ppc = "panicked"
    /\ Len(curr) >= 1
    /\ \A path \in Paths(tree) : LocalSyntaxPtr_new(NodeAt(tree, path)) # ptr

\* ------------------------------------------------------------------------
\* The typed syntax layer (ast.rs) over syntax nodes
\* ------------------------------------------------------------------------

\* The leaf of an identifier: a token that carries its text.
Ident(text) == [kind |-> "IDENT", len |-> 1, kids |-> <<>>, text |-> text]

\* The syntax kinds `ast::Expr::cast`, `ast::Pat::cast`, `ast::Stmt::cast`
\* and `ast::TypeRef::cast` accept.
ExprKinds ==
    {"TUPLE_EXPR", "ARRAY_EXPR", "PAREN_EXPR", "PATH_EXPR", "LAMBDA_EXPR",
     "IF_EXPR", "LOOP_EXPR", "FOR_EXPR", "WHILE_EXPR", "CONTINUE_EXPR",
     "BREAK_EXPR", "LABEL", "BLOCK_EXPR", "RETURN_EXPR", "MATCH_EXPR",
     "STRUCT_LIT", "CALL_EXPR", "INDEX_EXPR", "METHOD_CALL_EXPR",
     "FIELD_EXPR", "TRY_EXPR", "CAST_EXPR", "REF_EXPR", "PREFIX_EXPR",
     "RANGE_EXPR", "BIN_EXPR", "LITERAL"}
PatKinds ==
    {"REF_PAT", "BIND_PAT", "PLACEHOLDER_PAT", "PATH_PAT", "STRUCT_PAT",
     "TUPLE_STRUCT_PAT", "TUPLE_PAT", "SLICE_PAT", "RANGE_PAT"}
StmtKinds == {"LET_STMT", "EXPR_STMT"}
TypeRefKinds ==
    {"PAREN_TYPE", "TUPLE_TYPE", "NEVER_TYPE", "PATH_TYPE", "POINTER_TYPE",
     "ARRAY_TYPE", "SLICE_TYPE", "REFERENCE_TYPE", "PLACEHOLDER_TYPE",
     "FN_POINTER_TYPE", "FOR_TYPE", "IMPL_TRAIT_TYPE", "DYN_TRAIT_TYPE"}

\* ast::children: the children of a node that cast to the wanted type, in
\* order (AstChildren::next skips the others).
ast_children(ln, K) == SelectSeq(children(ln), LAMBDA c : kind(c) \in K)

\* Iterator::nth, counted from 0.
nth(s, n) == IF n < Len(s) THEN Some(s[n + 1]) ELSE None

\* ast::child_opt: the first child that casts to the wanted type.
child_opt(ln, K) == nth(ast_children(ln, K), 0)

\* Option::and_then(|c| child_opt(c)) over an optional node.
child_opt_of(o, K) == IF IsSome(o) THEN child_opt(Unwrap(o), K) ELSE None

\* IfExpr::then_branch, IfExpr::else_branch, over IfExpr::blocks.
then_branch(e) == nth(ast_children(e, {"BLOCK"}), 0)
else_branch(e) == nth(ast_children(e, {"BLOCK"}), 1)

\* BinExpr::lhs, BinExpr::rhs.
lhs(e) == nth(ast_children(e, ExprKinds), 0)
rhs(e) == nth(ast_children(e, ExprKinds), 1)

\* PrefixExpr::op: read off the kind of the first child.
PrefixExpr_op(e) ==
    LET cs == children(e) IN
    IF Len(cs) = 0 THEN None
    ELSE CASE kind(cs[1]) = "STAR" -> Some("Deref")
           [] kind(cs[1]) = "EXCL" -> Some("Not")
           [] kind(cs[1]) = "MINUS" -> Some("Neg")
           [] OTHER -> None

\* BinExpr::op: the first child whose kind is one of the operators known.
BinOpOf(k) ==
    CASE k = "PIPEPIPE" -> Some("BooleanOr")
      [] k = "AMPAMP" -> Some("BooleanAnd")
      [] k = "EQEQ" -> Some("EqualityTest")
      [] k = "LTEQ" -> Some("LesserEqualTest")
      [] k = "GTEQ" -> Some("GreaterEqualTest")
      [] k = "L_ANGLE" -> Some("LesserTest")
      [] k = "R_ANGLE" -> Some("GreaterTest")
      [] OTHER -> None
BinExpr_op(e) ==
    LET ops == SelectSeq(children(e), LAMBDA c : IsSome(BinOpOf(kind(c)))) IN
    IF Len(ops) = 0 THEN None ELSE BinOpOf(kind(ops[1]))

\* RefExpr::is_mut
RefExpr_is_mut(e) == \E i \in 1 .. Len(children(e)) : kind(children(e)[i]) = "MUT_KW"

\* Mutability::from_mutable
Mutability_from_mutable(m) == IF m THEN "Mut" ELSE "Shared"

\* Name::missing and Name::self_param.
Name_missing == "[missing name]"
Name_self_param == "self"

\* Name::text and NameRef::text, which as_name turns into a Name: the leaf
\* text of the node's first child.
as_name(nr) == children(nr)[1].n.text

\* `x.name_ref().map(|nr| nr.as_name()).unwrap_or_else(Name::missing)`
name_or_missing(o) == IF IsSome(o) THEN as_name(Unwrap(o)) ELSE Name_missing

\* Path::from_ast: the path of a PATH node, or None for a path it does not
\* understand; here a path is understood when its segment is a name.
Path_from_ast(p) ==
    LET nr == child_opt_of(child_opt(p, {"PATH_SEGMENT"}), {"NAME_REF"}) IN
    IF IsSome(nr) THEN Some([segments |-> <<as_name(Unwrap(nr))>>]) ELSE None

\* `x.path().and_then(Path::from_ast)`
path_of(e) ==
    LET p == child_opt(e, {"PATH"}) IN
    IF IsSome(p) THEN Path_from_ast(Unwrap(p)) ELSE None

\* Path::from_name_ref
Path_from_name_ref(nr) == [segments |-> <<as_name(nr)>>]

\* TypeRef::from_ast, TypeRef::from_ast_opt (None gives TypeRef::Error), and
\* `x.type_ref().map(TypeRef::from_ast)`.
TypeRef_from_ast(t) == [tag |-> "TypeRef", of |-> kind(t)]
TypeRef_from_ast_opt(o) ==
    IF IsSome(o) THEN TypeRef_from_ast(Unwrap(o)) ELSE [tag |-> "Error"]
type_ref_of(ln) ==
    LET t == child_opt(ln, TypeRefKinds) IN
    IF IsSome(t) THEN Some(TypeRef_from_ast(Unwrap(t))) ELSE None

\* ------------------------------------------------------------------------
\* Body lowering: the HIR and the collector
\* ------------------------------------------------------------------------

\* Expr (the variants without fields) and Pat::Missing.
Expr_Missing == [tag |-> "Missing"]
Expr_Continue == [tag |-> "Continue"]
Expr_Block(statements, tail) == [tag |-> "Block", statements |-> statements, tail |-> tail]
Pat_Missing == [tag |-> "Missing"]

\* ExprCollector::new.  Ids are the arenas' raw indices, counted from 0;
\* the arena `exprs` holds the expression of id i at position i + 1.
ExprCollector_new ==
    [exprs |-> <<>>, pats |-> <<>>,
     expr_syntax_mapping |-> EmptyMap, expr_syntax_mapping_back |-> EmptyMap,
     pat_syntax_mapping |-> EmptyMap, pat_syntax_mapping_back |-> EmptyMap]

\* Sequencing of the collector's steps: `v` is computed once and handed to
\* what follows, the way `let x = v;` does.
Bind(v, F(_)) == CHOOSE out \in {F(x) : x \in {v}} : TRUE

\* What a collector method gives back: the collector after it, and its value.
Ret(c, id) == [c |-> c, id |-> id]

\* `self.exprs.alloc(expr)` and `self.pats.alloc(pat)`
exprs_alloc(c, expr) == Ret([c EXCEPT !.exprs = Append(@, expr)], Len(c.exprs))
pats_alloc(c, pat) == Ret([c EXCEPT !.pats = Append(@, pat)], Len(c.pats))

\* Mutant of alloc_expr: the back map is not filled.
alloc_expr_no_back(c, expr, syntax_ptr) ==
    Bind(exprs_alloc(c, expr), LAMBDA r :
    Ret([r.c EXCEPT !.expr_syntax_mapping = MapInsert(@, syntax_ptr, r.id)], r.id))

\* ExprCollector::alloc_expr
alloc_expr(c, expr, syntax_ptr) ==
    Bind(exprs_alloc(c, expr), LAMBDA r :
    Ret([r.c EXCEPT !.expr_syntax_mapping = MapInsert(@, syntax_ptr, r.id),
                    !.expr_syntax_mapping_back = MapInsert(@, r.id, syntax_ptr)],
        r.id))

\* ExprCollector::alloc_pat
alloc_pat(c, pat, syntax_ptr) ==
    Bind(pats_alloc(c, pat), LAMBDA r :
    Ret([r.c EXCEPT !.pat_syntax_mapping = MapInsert(@, syntax_ptr, r.id),
                    !.pat_syntax_mapping_back = MapInsert(@, r.id, syntax_ptr)],
        r.id))

\* ExprCollector::empty_block
empty_block(c) == exprs_alloc(c, Expr_Block(<<>>, None))

RECURSIVE collect_expr(_, _)
RECURSIVE collect_expr_opt(_, _)
RECURSIVE collect_exprs(_, _)
RECURSIVE collect_block(_, _)
RECURSIVE collect_block_opt(_, _)
RECURSIVE collect_statements(_, _)
RECURSIVE collect_pat(_, _)
RECURSIVE collect_pat_opt(_, _)
RECURSIVE collect_pats(_, _)
RECURSIVE collect_match_arms(_, _)
RECURSIVE collect_fields(_, _)
RECURSIVE collect_lambda_params(_, _)

\* `e.expr().map(|e| self.collect_expr(e))`: an optional id.
collect_expr_map(c, o) ==
    IF IsSome(o)
    THEN Bind(collect_expr(c, Unwrap(o)), LAMBDA r : Ret(r.c, Some(r.id)))
    ELSE Ret(c, None)

\* `e.else_branch().map(|e| self.collect_block(e))`: an optional id.
collect_block_map(c, o) ==
    IF IsSome(o)
    THEN Bind(collect_block(c, Unwrap(o)), LAMBDA r : Ret(r.c, Some(r.id)))
    ELSE Ret(c, None)

\* `arg_list.args().map(|e| self.collect_expr(e)).collect()`: the
\* expressions are lowered from left to right.
collect_exprs(c, es) ==
    IF Len(es) = 0 THEN Ret(c, <<>>)
    ELSE Bind(collect_expr(c, es[1]), LAMBDA r :
         Bind(collect_exprs(r.c, Tail(es)), LAMBDA rest :
         Ret(rest.c, <<r.id>> \o rest.id)))

\* The arguments of a call or method call: those of its ARG_LIST, if any.
collect_args(c, e) ==
    IF IsSome(child_opt(e, {"ARG_LIST"}))
    THEN collect_exprs(c, ast_children(Unwrap(child_opt(e, {"ARG_LIST"})), ExprKinds))
    ELSE Ret(c, <<>>)

\* Mutant of collect_IfExpr_let: without else, the catch-all arm gets a
\* placeholder instead of an empty block.
collect_IfExpr_let_missing_else(c, e, syntax_ptr) ==
    Bind(collect_pat(c, Unwrap(child_opt_of(child_opt(e, {"CONDITION"}), PatKinds))),
         LAMBDA pat :
    Bind(collect_expr_opt(pat.c, child_opt_of(child_opt(e, {"CONDITION"}), ExprKinds)),
         LAMBDA match_expr :
    Bind(collect_block_opt(match_expr.c, then_branch(e)), LAMBDA then_b :
    Bind(collect_block_opt(then_b.c, else_branch(e)), LAMBDA else_b :
    Bind(pats_alloc(else_b.c, Pat_Missing), LAMBDA placeholder_pat :
    alloc_expr(placeholder_pat.c,
               [tag |-> "Match", expr |-> match_expr.id,
                arms |-> << [pats |-> <<pat.id>>, expr |-> then_b.id],
                            [pats |-> <<placeholder_pat.id>>, expr |-> else_b.id] >>],
               syntax_ptr))))))

\* collect_expr, ast::Expr::IfExpr, with `if let`: desugared to a match.
collect_IfExpr_let(c, e, syntax_ptr) ==
    Bind(collect_pat(c, Unwrap(child_opt_of(child_opt(e, {"CONDITION"}), PatKinds))),
         LAMBDA pat :
    Bind(collect_expr_opt(pat.c, child_opt_of(child_opt(e, {"CONDITION"}), ExprKinds)),
         LAMBDA match_expr :
    Bind(collect_block_opt(match_expr.c, then_branch(e)), LAMBDA then_b :
    Bind(IF IsSome(else_branch(e)) THEN collect_block(then_b.c, Unwrap(else_branch(e)))
         ELSE empty_block(then_b.c), LAMBDA else_b :
    Bind(pats_alloc(else_b.c, Pat_Missing), LAMBDA placeholder_pat :
    alloc_expr(placeholder_pat.c,
               [tag |-> "Match", expr |-> match_expr.id,
                arms |-> << [pats |-> <<pat.id>>, expr |-> then_b.id],
                            [pats |-> <<placeholder_pat.id>>, expr |-> else_b.id] >>],
               syntax_ptr))))))

\* collect_expr, ast::Expr::IfExpr
collect_IfExpr(c, e, syntax_ptr) ==
    IF IsSome(child_opt_of(child_opt(e, {"CONDITION"}), PatKinds))
    THEN collect_IfExpr_let(c, e, syntax_ptr)
    ELSE Bind(collect_expr_opt(c, child_opt_of(child_opt(e, {"CONDITION"}), ExprKinds)),
              LAMBDA condition :
         Bind(collect_block_opt(condition.c, then_branch(e)), LAMBDA then_b :
         Bind(collect_block_map(then_b.c, else_branch(e)), LAMBDA else_b :
         alloc_expr(else_b.c,
                    [tag |-> "If", condition |-> condition.id,
                     then_branch |-> then_b.id, else_branch |-> else_b.id],
                    syntax_ptr))))

\* collect_expr, ast::Expr::BlockExpr
collect_BlockExpr(c, e, syntax_ptr) == collect_block_opt(c, child_opt(e, {"BLOCK"}))

\* collect_expr, ast::Expr::LoopExpr
collect_LoopExpr(c, e, syntax_ptr) ==
    Bind(collect_block_opt(c, child_opt(e, {"BLOCK"})), LAMBDA body :
    alloc_expr(body.c, [tag |-> "Loop", body |-> body.id], syntax_ptr))

\* Mutant of collect_WhileExpr: `while let` is lowered as a `while` over
\* the expression of its condition.
collect_WhileExpr_let_as_while(c, e, syntax_ptr) ==
    Bind(IF IsSome(child_opt(e, {"CONDITION"}))
         THEN collect_expr_opt(c, child_opt_of(child_opt(e, {"CONDITION"}), ExprKinds))
         ELSE exprs_alloc(c, Expr_Missing), LAMBDA condition :
    Bind(collect_block_opt(condition.c, child_opt(e, {"BLOCK"})), LAMBDA body :
    alloc_expr(body.c,
               [tag |-> "While", condition |-> condition.id, body |-> body.id],
               syntax_ptr)))

\* collect_expr, ast::Expr::WhileExpr
collect_WhileExpr(c, e, syntax_ptr) ==
    IF IsSome(child_opt_of(child_opt(e, {"CONDITION"}), PatKinds))
    THEN \* while let: not lowered
         alloc_expr(c, Expr_Missing, syntax_ptr)
    ELSE Bind(IF IsSome(child_opt(e, {"CONDITION"}))
              THEN collect_expr_opt(c, child_opt_of(child_opt(e, {"CONDITION"}), ExprKinds))
              ELSE exprs_alloc(c, Expr_Missing), LAMBDA condition :
         Bind(collect_block_opt(condition.c, child_opt(e, {"BLOCK"})), LAMBDA body :
         alloc_expr(body.c,
                    [tag |-> "While", condition |-> condition.id, body |-> body.id],
                    syntax_ptr)))

\* collect_expr, ast::Expr::ForExpr
collect_ForExpr(c, e, syntax_ptr) ==
    Bind(collect_expr_opt(c, child_opt(e, ExprKinds)), LAMBDA iterable :
    Bind(collect_pat_opt(iterable.c, child_opt(e, PatKinds)), LAMBDA pat :
    Bind(collect_block_opt(pat.c, child_opt(e, {"BLOCK"})), LAMBDA body :
    alloc_expr(body.c,
               [tag |-> "For", iterable |-> iterable.id, pat |-> pat.id,
                body |-> body.id],
               syntax_ptr))))

\* collect_expr, ast::Expr::CallExpr
collect_CallExpr(c, e, syntax_ptr) ==
    Bind(collect_expr_opt(c, child_opt(e, ExprKinds)), LAMBDA callee :
    Bind(collect_args(callee.c, e), LAMBDA args :
    alloc_expr(args.c, [tag |-> "Call", callee |-> callee.id, args |-> args.id],
               syntax_ptr)))

\* collect_expr, ast::Expr::MethodCallExpr
collect_MethodCallExpr(c, e, syntax_ptr) ==
    Bind(collect_expr_opt(c, child_opt(e, ExprKinds)), LAMBDA receiver :
    Bind(collect_args(receiver.c, e), LAMBDA args :
    alloc_expr(args.c,
               [tag |-> "MethodCall", receiver |-> receiver.id,
                method_name |-> name_or_missing(child_opt(e, {"NAME_REF"})),
                args |-> args.id],
               syntax_ptr)))

\* The arms of a match, in order: of each arm its patterns, then its
\* expression.
collect_match_arms(c, arms) ==
    IF Len(arms) = 0 THEN Ret(c, <<>>)
    ELSE Bind(collect_pats(c, ast_children(arms[1], PatKinds)), LAMBDA pats :
         Bind(collect_expr_opt(pats.c, child_opt(arms[1], ExprKinds)), LAMBDA expr :
         Bind(collect_match_arms(expr.c, Tail(arms)), LAMBDA rest :
         Ret(rest.c, <<[pats |-> pats.id, expr |-> expr.id]>> \o rest.id))))

\* collect_expr, ast::Expr::MatchExpr
collect_MatchExpr(c, e, syntax_ptr) ==
    Bind(collect_expr_opt(c, child_opt(e, ExprKinds)), LAMBDA expr :
    Bind(IF IsSome(child_opt(e, {"MATCH_ARM_LIST"}))
         THEN collect_match_arms(expr.c,
                  ast_children(Unwrap(child_opt(e, {"MATCH_ARM_LIST"})), {"MATCH_ARM"}))
         ELSE Ret(expr.c, <<>>), LAMBDA arms :
    alloc_expr(arms.c, [tag |-> "Match", expr |-> expr.id, arms |-> arms.id],
               syntax_ptr)))

\* collect_expr, ast::Expr::PathExpr
collect_PathExpr(c, e, syntax_ptr) ==
    alloc_expr(c,
               IF IsSome(path_of(e)) THEN [tag |-> "Path", path |-> Unwrap(path_of(e))]
               ELSE Expr_Missing,
               syntax_ptr)

\* collect_expr, ast::Expr::ContinueExpr
collect_ContinueExpr(c, e, syntax_ptr) == alloc_expr(c, Expr_Continue, syntax_ptr)

\* collect_expr, ast::Expr::BreakExpr
collect_BreakExpr(c, e, syntax_ptr) ==
    Bind(collect_expr_map(c, child_opt(e, ExprKinds)), LAMBDA expr :
    alloc_expr(expr.c, [tag |-> "Break", expr |-> expr.id], syntax_ptr))

\* Mutant of collect_ParenExpr: the parenthesis is registered the way
\* alloc_expr registers a node, in both maps.
collect_ParenExpr_both_maps(c, e, syntax_ptr) ==
    Bind(collect_expr_opt(c, child_opt(e, ExprKinds)), LAMBDA inner :
    Ret([inner.c EXCEPT
            !.expr_syntax_mapping = MapInsert(@, syntax_ptr, inner.id),
            !.expr_syntax_mapping_back = MapInsert(@, inner.id, syntax_ptr)],
        inner.id))

\* collect_expr, ast::Expr::ParenExpr
collect_ParenExpr(c, e, syntax_ptr) ==
    Bind(collect_expr_opt(c, child_opt(e, ExprKinds)), LAMBDA inner :
    Ret([inner.c EXCEPT !.expr_syntax_mapping = MapInsert(@, syntax_ptr, inner.id)],
        inner.id))

\* collect_expr, ast::Expr::ReturnExpr
collect_ReturnExpr(c, e, syntax_ptr) ==
    Bind(collect_expr_map(c, child_opt(e, ExprKinds)), LAMBDA expr :
    alloc_expr(expr.c, [tag |-> "Return", expr |-> expr.id], syntax_ptr))

\* Mutant of collect_field_expr: the shorthand's path is registered under
\* the pointer of the field, not of its name reference.
collect_field_expr_field_ptr(c, field) ==
    IF IsSome(child_opt(field, ExprKinds))
    THEN collect_expr(c, Unwrap(child_opt(field, ExprKinds)))
    ELSE IF IsSome(child_opt(field, {"NAME_REF"}))
    THEN Bind(Unwrap(child_opt(field, {"NAME_REF"})), LAMBDA nr :
         Bind(exprs_alloc(c, [tag |-> "Path", path |-> Path_from_name_ref(nr)]),
              LAMBDA r :
         Ret([r.c EXCEPT
                 !.expr_syntax_mapping = MapInsert(@, LocalSyntaxPtr_new(field), r.id),
                 !.expr_syntax_mapping_back = MapInsert(@, r.id, LocalSyntaxPtr_new(field))],
             r.id)))
    ELSE exprs_alloc(c, Expr_Missing)

\* The expression of one field of a struct literal.
collect_field_expr(c, field) ==
    IF IsSome(child_opt(field, ExprKinds))
    THEN collect_expr(c, Unwrap(child_opt(field, ExprKinds)))
    ELSE IF IsSome(child_opt(field, {"NAME_REF"}))
    THEN \* field shorthand
         Bind(Unwrap(child_opt(field, {"NAME_REF"})), LAMBDA nr :
         Bind(exprs_alloc(c, [tag |-> "Path", path |-> Path_from_name_ref(nr)]),
              LAMBDA r :
         Ret([r.c EXCEPT
                 !.expr_syntax_mapping = MapInsert(@, LocalSyntaxPtr_new(nr), r.id),
                 !.expr_syntax_mapping_back = MapInsert(@, r.id, LocalSyntaxPtr_new(nr))],
             r.id)))
    ELSE exprs_alloc(c, Expr_Missing)

\* The fields of a struct literal, in order.
collect_fields(c, fields) ==
    IF Len(fields) = 0 THEN Ret(c, <<>>)
    ELSE Bind(collect_field_expr(c, fields[1]), LAMBDA expr :
         Bind(collect_fields(expr.c, Tail(fields)), LAMBDA rest :
         Ret(rest.c,
             <<[name |-> name_or_missing(child_opt(fields[1], {"NAME_REF"})),
                expr |-> expr.id]>> \o rest.id)))

\* collect_expr, ast::Expr::StructLit
collect_StructLit(c, e, syntax_ptr) ==
    Bind(IF IsSome(child_opt(e, {"NAMED_FIELD_LIST"}))
         THEN collect_fields(c,
                  ast_children(Unwrap(child_opt(e, {"NAMED_FIELD_LIST"})), {"NAMED_FIELD"}))
         ELSE Ret(c, <<>>), LAMBDA fields :
    Bind(collect_expr_map(fields.c, child_opt(e, ExprKinds)), LAMBDA spread :
    alloc_expr(spread.c,
               [tag |-> "StructLit", path |-> path_of(e), fields |-> fields.id,
                spread |-> spread.id],
               syntax_ptr)))

\* collect_expr, ast::Expr::FieldExpr
collect_FieldExpr(c, e, syntax_ptr) ==
    Bind(collect_expr_opt(c, child_opt(e, ExprKinds)), LAMBDA expr :
    alloc_expr(expr.c,
               [tag |-> "Field", expr |-> expr.id,
                name |-> name_or_missing(child_opt(e, {"NAME_REF"}))],
               syntax_ptr))

\* collect_expr, ast::Expr::TryExpr
collect_TryExpr(c, e, syntax_ptr) ==
    Bind(collect_expr_opt(c, child_opt(e, ExprKinds)), LAMBDA expr :
    alloc_expr(expr.c, [tag |-> "Try", expr |-> expr.id], syntax_ptr))

\* collect_expr, ast::Expr::CastExpr
collect_CastExpr(c, e, syntax_ptr) ==
    Bind(collect_expr_opt(c, child_opt(e, ExprKinds)), LAMBDA expr :
    alloc_expr(expr.c,
               [tag |-> "Cast", expr |-> expr.id,
                type_ref |-> TypeRef_from_ast_opt(child_opt(e, TypeRefKinds))],
               syntax_ptr))

\* collect_expr, ast::Expr::RefExpr
collect_RefExpr(c, e, syntax_ptr) ==
    Bind(collect_expr_opt(c, child_opt(e, ExprKinds)), LAMBDA expr :
    alloc_expr(expr.c,
               [tag |-> "Ref", expr |-> expr.id,
                mutability |-> Mutability_from_mutable(RefExpr_is_mut(e))],
               syntax_ptr))

\* collect_expr, ast::Expr::PrefixExpr
collect_PrefixExpr(c, e, syntax_ptr) ==
    Bind(collect_expr_opt(c, child_opt(e, ExprKinds)), LAMBDA expr :
    alloc_expr(expr.c, [tag |-> "UnaryOp", expr |-> expr.id, op |-> PrefixExpr_op(e)],
               syntax_ptr))

\* The parameters of a lambda, in order: of each its pattern and its type.
\* The value is the pair of `args` and `arg_types`.
collect_lambda_params(c, params) ==
    IF Len(params) = 0 THEN Ret(c, [args |-> <<>>, arg_types |-> <<>>])
    ELSE Bind(collect_pat_opt(c, child_opt(params[1], PatKinds)), LAMBDA pat :
         Bind(collect_lambda_params(pat.c, Tail(params)), LAMBDA rest :
         Ret(rest.c, [args |-> <<pat.id>> \o rest.id.args,
                      arg_types |-> <<type_ref_of(params[1])>> \o rest.id.arg_types])))

\* collect_expr, ast::Expr::LambdaExpr
collect_LambdaExpr(c, e, syntax_ptr) ==
    Bind(IF IsSome(child_opt(e, {"PARAM_LIST"}))
         THEN collect_lambda_params(c,
                  ast_children(Unwrap(child_opt(e, {"PARAM_LIST"})), {"PARAM"}))
         ELSE Ret(c, [args |-> <<>>, arg_types |-> <<>>]), LAMBDA params :
    Bind(collect_expr_opt(params.c, child_opt(e, ExprKinds)), LAMBDA body :
    alloc_expr(body.c,
               [tag |-> "Lambda", args |-> params.id.args,
                arg_types |-> params.id.arg_types, body |-> body.id],
               syntax_ptr)))

\* collect_expr, ast::Expr::BinExpr
collect_BinExpr(c, e, syntax_ptr) ==
    Bind(collect_expr_opt(c, lhs(e)), LAMBDA l :
    Bind(collect_expr_opt(l.c, rhs(e)), LAMBDA r :
    alloc_expr(r.c,
               [tag |-> "BinaryOp", lhs |-> l.id, rhs |-> r.id, op |-> BinExpr_op(e)],
               syntax_ptr)))

\* Mutant of collect_unimplemented: the placeholder is allocated without
\* its pointer.
collect_unimplemented_no_ptr(c, e, syntax_ptr) == exprs_alloc(c, Expr_Missing)

\* collect_expr, the kinds without HIR yet: Label, IndexExpr, TupleExpr,
\* ArrayExpr, RangeExpr, Literal.
collect_unimplemented(c, e, syntax_ptr) == alloc_expr(c, Expr_Missing, syntax_ptr)

\* The match of collect_expr over the kind of the expression.
collect_expr_match(c, e, syntax_ptr, k) ==
    CASE k = "IF_EXPR" -> collect_IfExpr(c, e, syntax_ptr)
      [] k = "BLOCK_EXPR" -> collect_BlockExpr(c, e, syntax_ptr)
      [] k = "LOOP_EXPR" -> collect_LoopExpr(c, e, syntax_ptr)
      [] k = "WHILE_EXPR" -> collect_WhileExpr(c, e, syntax_ptr)
      [] k = "FOR_EXPR" -> collect_ForExpr(c, e, syntax_ptr)
      [] k = "CALL_EXPR" -> collect_CallExpr(c, e, syntax_ptr)
      [] k = "METHOD_CALL_EXPR" -> collect_MethodCallExpr(c, e, syntax_ptr)
      [] k = "MATCH_EXPR" -> collect_MatchExpr(c, e, syntax_ptr)
      [] k = "PATH_EXPR" -> collect_PathExpr(c, e, syntax_ptr)
      [] k = "CONTINUE_EXPR" -> collect_ContinueExpr(c, e, syntax_ptr)
      [] k = "BREAK_EXPR" -> collect_BreakExpr(c, e, syntax_ptr)
      [] k = "PAREN_EXPR" -> collect_ParenExpr(c, e, syntax_ptr)
      [] k = "RETURN_EXPR" -> collect_ReturnExpr(c, e, syntax_ptr)
      [] k = "STRUCT_LIT" -> collect_StructLit(c, e, syntax_ptr)
      [] k = "FIELD_EXPR" -> collect_FieldExpr(c, e, syntax_ptr)
      [] k = "TRY_EXPR" -> collect_TryExpr(c, e, syntax_ptr)
      [] k = "CAST_EXPR" -> collect_CastExpr(c, e, syntax_ptr)
      [] k = "REF_EXPR" -> collect_RefExpr(c, e, syntax_ptr)
      [] k = "PREFIX_EXPR" -> collect_PrefixExpr(c, e, syntax_ptr)
      [] k = "LAMBDA_EXPR" -> collect_LambdaExpr(c, e, syntax_ptr)
      [] k = "BIN_EXPR" -> collect_BinExpr(c, e, syntax_ptr)
      [] k \in {"LABEL", "INDEX_EXPR", "TUPLE_EXPR", "ARRAY_EXPR",
                "RANGE_EXPR", "LITERAL"} -> collect_unimplemented(c, e, syntax_ptr)

\* ExprCollector::collect_expr
collect_expr(c, e) == collect_expr_match(c, e, LocalSyntaxPtr_new(e), kind(e))

\* Mutant of collect_expr_opt: for an absent expression the next free id is
\* handed out, but nothing is allocated for it.
collect_expr_opt_no_alloc(c, o) ==
    IF IsSome(o) THEN collect_expr(c, Unwrap(o)) ELSE Ret(c, Len(c.exprs))

\* ExprCollector::collect_expr_opt
collect_expr_opt(c, o) ==
    IF IsSome(o) THEN collect_expr(c, Unwrap(o)) ELSE exprs_alloc(c, Expr_Missing)

\* One statement of a block: `let` or an expression statement.
collect_statement(c, s) ==
    IF kind(s) = "LET_STMT"
    THEN Bind(collect_pat_opt(c, child_opt(s, PatKinds)), LAMBDA pat :
         Bind(collect_expr_map(pat.c, child_opt(s, ExprKinds)), LAMBDA initializer :
         Ret(initializer.c,
             [tag |-> "Let", pat |-> pat.id, type_ref |-> type_ref_of(s),
              initializer |-> initializer.id])))
    ELSE Bind(collect_expr_opt(c, child_opt(s, ExprKinds)), LAMBDA r :
         Ret(r.c, [tag |-> "Expr", expr |-> r.id]))

\* The statements of a block, in order.
collect_statements(c, stmts) ==
    IF Len(stmts) = 0 THEN Ret(c, <<>>)
    ELSE Bind(collect_statement(c, stmts[1]), LAMBDA one :
         Bind(collect_statements(one.c, Tail(stmts)), LAMBDA rest :
         Ret(rest.c, <<one.id>> \o rest.id)))

\* Mutant of collect_block: the tail is lowered before the statements.
collect_block_tail_first(c, block) ==
    Bind(collect_expr_map(c, child_opt(block, ExprKinds)), LAMBDA tail :
    Bind(collect_statements(tail.c, ast_children(block, StmtKinds)), LAMBDA statements :
    alloc_expr(statements.c, Expr_Block(statements.id, tail.id),
               LocalSyntaxPtr_new(block))))

\* ExprCollector::collect_block
collect_block(c, block) ==
    Bind(collect_statements(c, ast_children(block, StmtKinds)), LAMBDA statements :
    Bind(collect_expr_map(statements.c, child_opt(block, ExprKinds)), LAMBDA tail :
    alloc_expr(tail.c, Expr_Block(statements.id, tail.id), LocalSyntaxPtr_new(block))))

\* Mutant of collect_block_opt: an absent block gets no placeholder of its
\* own; the expression allocated last stands in for it.
collect_block_opt_reuse(c, o) ==
    IF IsSome(o) THEN collect_block(c, Unwrap(o))
    ELSE IF Len(c.exprs) = 0 THEN exprs_alloc(c, Expr_Missing)
    ELSE Ret(c, Len(c.exprs) - 1)

\* ExprCollector::collect_block_opt
collect_block_opt(c, o) ==
    IF IsSome(o) THEN collect_block(c, Unwrap(o)) ELSE exprs_alloc(c, Expr_Missing)

\* `p.args().map(|p| self.collect_pat(p)).collect()`
collect_pats(c, ps) ==
    IF Len(ps) = 0 THEN Ret(c, <<>>)
    ELSE Bind(collect_pat(c, ps[1]), LAMBDA r :
         Bind(collect_pats(r.c, Tail(ps)), LAMBDA rest :
         Ret(rest.c, <<r.id>> \o rest.id)))

\* ExprCollector::collect_pat
collect_pat(c, pat) ==
    CASE kind(pat) = "BIND_PAT" ->
             alloc_pat(c, [tag |-> "Bind", name |-> name_or_missing(child_opt(pat, {"NAME"}))],
                       LocalSyntaxPtr_new(pat))
      [] kind(pat) = "TUPLE_STRUCT_PAT" ->
             Bind(collect_pats(c, ast_children(pat, PatKinds)), LAMBDA args :
             alloc_pat(args.c,
                       [tag |-> "TupleStruct", path |-> path_of(pat), args |-> args.id],
                       LocalSyntaxPtr_new(pat)))
      [] OTHER -> alloc_pat(c, Pat_Missing, LocalSyntaxPtr_new(pat))

\* ExprCollector::collect_pat_opt
collect_pat_opt(c, o) ==
    IF IsSome(o) THEN collect_pat(c, Unwrap(o)) ELSE pats_alloc(c, Pat_Missing)

\* ExprCollector::into_body_syntax_mapping
into_body_syntax_mapping(c, args, body_expr) ==
    [body |-> [exprs |-> c.exprs, pats |-> c.pats, args |-> args,
               body_expr |-> body_expr],
     expr_syntax_mapping |-> c.expr_syntax_mapping,
     expr_syntax_mapping_back |-> c.expr_syntax_mapping_back,
     pat_syntax_mapping |-> c.pat_syntax_mapping,
     pat_syntax_mapping_back |-> c.pat_syntax_mapping_back]

\* collect_fn_body_syntax, the self parameter: bound to the name `self`,
\* with the pointer of its `self` keyword.
collect_self_param(c, self_kw) ==
    Bind(alloc_pat(c, [tag |-> "Bind", name |-> Name_self_param],
                   LocalSyntaxPtr_new(self_kw)), LAMBDA r :
    Ret(r.c, <<r.id>>))

\* collect_fn_body_syntax, the loop over `param_list.params()`: a parameter
\* without a pattern is skipped.
RECURSIVE collect_fn_params(_, _)
collect_fn_params(c, params) ==
    IF Len(params) = 0 THEN Ret(c, <<>>)
    ELSE IF IsSome(child_opt(params[1], PatKinds))
    THEN Bind(collect_pat(c, Unwrap(child_opt(params[1], PatKinds))), LAMBDA r :
         Bind(collect_fn_params(r.c, Tail(params)), LAMBDA rest :
         Ret(rest.c, <<r.id>> \o rest.id)))
    ELSE collect_fn_params(c, Tail(params))

\* Mutant of collect_fn_args: the self parameter is pushed after the other
\* parameters.
collect_fn_args_self_last(c, param_list) ==
    Bind(collect_fn_params(c, ast_children(param_list, {"PARAM"})), LAMBDA rest :
    Bind(IF IsSome(child_opt(param_list, {"SELF_PARAM"}))
         THEN collect_self_param(rest.c,
                  Unwrap(child_opt_of(child_opt(param_list, {"SELF_PARAM"}), {"SELF_KW"})))
         ELSE Ret(rest.c, <<>>), LAMBDA self_arg :
    Ret(self_arg.c, rest.id \o self_arg.id)))

\* collect_fn_body_syntax, the arguments: those of the parameter list, if
\* the function has one.
collect_fn_args(c, param_list) ==
    Bind(IF IsSome(child_opt(param_list, {"SELF_PARAM"}))
         THEN collect_self_param(c,
                  Unwrap(child_opt_of(child_opt(param_list, {"SELF_PARAM"}), {"SELF_KW"})))
         ELSE Ret(c, <<>>), LAMBDA self_arg :
    Bind(collect_fn_params(self_arg.c, ast_children(param_list, {"PARAM"})), LAMBDA rest :
    Ret(rest.c, self_arg.id \o rest.id)))

\* collect_fn_body_syntax: the BodySyntaxMapping of a function, or the
\* panic of `expect("self param without self keyword")`.
Panicked == [panicked |-> TRUE]
collect_fn_body_syntax(node) ==
    IF /\ IsSome(child_opt_of(child_opt(node, {"PARAM_LIST"}), {"SELF_PARAM"}))
       /\ ~IsSome(child_opt_of(child_opt_of(child_opt(node, {"PARAM_LIST"}),
                                            {"SELF_PARAM"}), {"SELF_KW"}))
    THEN Panicked
    ELSE Bind(IF IsSome(child_opt(node, {"PARAM_LIST"}))
              THEN collect_fn_args(ExprCollector_new, Unwrap(child_opt(node, {"PARAM_LIST"})))
              ELSE Ret(ExprCollector_new, <<>>), LAMBDA args :
         Bind(collect_block_opt(args.c, child_opt(node, {"BLOCK"})), LAMBDA body :
         [panicked |-> FALSE] @@ into_body_syntax_mapping(body.c, args.id, body.id)))

\* BodySyntaxMapping: expr_syntax, syntax_expr, node_expr, pat_syntax,
\* syntax_pat, node_pat.
MapGet(m, k) == IF k \in DOMAIN m THEN Some(m[k]) ELSE None
expr_syntax(m, expr) == MapGet(m.expr_syntax_mapping_back, expr)
syntax_expr(m, p) == MapGet(m.expr_syntax_mapping, p)
node_expr(m, node) == MapGet(m.expr_syntax_mapping, LocalSyntaxPtr_new(node))
pat_syntax(m, pat) == MapGet(m.pat_syntax_mapping_back, pat)
syntax_pat(m, p) == MapGet(m.pat_syntax_mapping, p)
node_pat(m, node) == MapGet(m.pat_syntax_mapping, LocalSyntaxPtr_new(node))

\* The sequences of a sequence, one after the other.
RECURSIVE Concat(_)
Concat(ss) == IF ss = <<>> THEN <<>> ELSE Head(ss) \o Concat(Tail(ss))

\* An Option as the sequence of what it holds.
OptSeq(o) == o

\* Expr::walk_child_exprs: the ids f is called with, in the order of the
\* calls.
walk_stmt_exprs(stmt) ==
    IF stmt.tag = "Let" THEN OptSeq(stmt.initializer) ELSE <<stmt.expr>>

\* Mutant of walk_child_exprs: the arguments of a call are visited before
\* the callee, and the else branch of an `if` is not visited.
walk_child_exprs_args_first(x) ==
    CASE x.tag \in {"Missing", "Path", "Continue"} -> <<>>
      [] x.tag = "If" -> <<x.condition, x.then_branch>>
      [] x.tag = "Block" ->
             Concat([i \in 1 .. Len(x.statements) |-> walk_stmt_exprs(x.statements[i])])
                 \o OptSeq(x.tail)
      [] x.tag = "Loop" -> <<x.body>>
      [] x.tag = "While" -> <<x.condition, x.body>>
      [] x.tag = "For" -> <<x.iterable, x.body>>
      [] x.tag = "Call" -> x.args \o <<x.callee>>
      [] x.tag = "MethodCall" -> <<x.receiver>> \o x.args
      [] x.tag = "Match" -> <<x.expr>> \o [i \in 1 .. Len(x.arms) |-> x.arms[i].expr]
      [] x.tag \in {"Break", "Return"} -> OptSeq(x.expr)
      [] x.tag = "StructLit" ->
             [i \in 1 .. Len(x.fields) |-> x.fields[i].expr] \o OptSeq(x.spread)
      [] x.tag = "Lambda" -> <<x.body>>
      [] x.tag = "BinaryOp" -> <<x.lhs, x.rhs>>
      [] x.tag \in {"Field", "Try", "Cast", "Ref", "UnaryOp"} -> <<x.expr>>

walk_child_exprs(x) ==
    CASE x.tag \in {"Missing", "Path", "Continue"} -> <<>>
      [] x.tag = "If" -> <<x.condition, x.then_branch>> \o OptSeq(x.else_branch)
      [] x.tag = "Block" ->
             Concat([i \in 1 .. Len(x.statements) |-> walk_stmt_exprs(x.statements[i])])
                 \o OptSeq(x.tail)
      [] x.tag = "Loop" -> <<x.body>>
      [] x.tag = "While" -> <<x.condition, x.body>>
      [] x.tag = "For" -> <<x.iterable, x.body>>
      [] x.tag = "Call" -> <<x.callee>> \o x.args
      [] x.tag = "MethodCall" -> <<x.receiver>> \o x.args
      [] x.tag = "Match" -> <<x.expr>> \o [i \in 1 .. Len(x.arms) |-> x.arms[i].expr]
      [] x.tag \in {"Break", "Return"} -> OptSeq(x.expr)
      [] x.tag = "StructLit" ->
             [i \in 1 .. Len(x.fields) |-> x.fields[i].expr] \o OptSeq(x.spread)
      [] x.tag = "Lambda" -> <<x.body>>
      [] x.tag = "BinaryOp" -> <<x.lhs, x.rhs>>
      [] x.tag \in {"Field", "Try", "Cast", "Ref", "UnaryOp"} -> <<x.expr>>

\* Pat::walk_child_pats
walk_child_pats(pat) == IF pat.tag = "TupleStruct" THEN pat.args ELSE <<>>

\* The PatIds an Expr stores: those of For, of the `let` statements of a
\* Block, of the arms of a Match and of the arguments of a Lambda.
expr_pats(x) ==
    CASE x.tag = "For" -> <<x.pat>>
      [] x.tag = "Block" ->
             Concat([i \in 1 .. Len(x.statements) |->
                        IF x.statements[i].tag = "Let" THEN <<x.statements[i].pat>>
                        ELSE <<>>])
      [] x.tag = "Match" -> Concat([i \in 1 .. Len(x.arms) |-> x.arms[i].pats])
      [] x.tag = "Lambda" -> x.args
      [] OTHER -> <<>>

\* ------------------------------------------------------------------------
\* Body lowering: the functions lowered
\* ------------------------------------------------------------------------
\* The syntax of a function as the parser builds it.  Whitespace is left
\* out; every node that the parser completes around an expression holds at
\* least one token of its own, so that no two expressions of a function
\* have both the same range and the same kind.

\* Bound of the model: how many times the body's expression is wrapped
\* into a larger expression.
MaxWraps == 1

NameRef(t) == Node("NAME_REF", <<Ident(t)>>)
NameN(t) == Node("NAME", <<Ident(t)>>)
PathOf(t) == Node("PATH", <<Node("PATH_SEGMENT", <<NameRef(t)>>)>>)
PathType(t) == Node("PATH_TYPE", <<PathOf(t)>>)
\* `x`, and `<T>`: a path whose segment is not a name.
PathExpr(t) == Node("PATH_EXPR", <<PathOf(t)>>)
TypePathExpr ==
    Node("PATH_EXPR",
         <<Node("PATH", <<Node("PATH_SEGMENT",
                               <<Tok("L_ANGLE"), PathType("T"), Tok("R_ANGLE")>>)>>)>>)
Literal == Node("LITERAL", <<Tok("INT_NUMBER")>>)

\* Patterns: `a`, `_`, `S(b, _)`, `ref` (a binding without its name), and
\* `a @ _`.
BindPat(t) == Node("BIND_PAT", <<NameN(t)>>)
PlaceholderPat == Node("PLACEHOLDER_PAT", <<Tok("UNDERSCORE")>>)
TupleStructPat(t, args) ==
    Node("TUPLE_STRUCT_PAT", <<PathOf(t), Tok("L_PAREN")>> \o args \o <<Tok("R_PAREN")>>)
Pats ==
    {BindPat("a"), PlaceholderPat,
     TupleStructPat("S", <<BindPat("b"), PlaceholderPat>>),
     Node("BIND_PAT", <<Tok("REF_KW")>>),
     Node("BIND_PAT", <<NameN("a"), Tok("AT"), PlaceholderPat>>)}

\* `{ stmts tail }`, with the tail as an Option.
Block(stmts, tail) ==
    Node("BLOCK", <<Tok("L_CURLY")>> \o stmts \o tail \o <<Tok("R_CURLY")>>)
BlockOf(t) == Block(<<>>, Some(PathExpr(t)))
ExprStmt(e) == Node("EXPR_STMT", <<e, Tok("SEMI")>>)
\* `let pat: ty = init;` with each of the three parts optional.
LetStmt(pat, ty, init) ==
    Node("LET_STMT",
         <<Tok("LET_KW")>> \o pat
             \o (IF IsSome(ty) THEN <<Tok("COLON")>> \o ty ELSE <<>>)
             \o (IF IsSome(init) THEN <<Tok("EQ")>> \o init ELSE <<>>)
             \o <<Tok("SEMI")>>)

\* The condition of `if` and `while`: `let pat = expr` or `expr`.
Condition(pat, e) ==
    Node("CONDITION", (IF IsSome(pat) THEN <<Tok("LET_KW")>> \o pat \o <<Tok("EQ")>>
                       ELSE <<>>) \o e)
IfExpr(cond, then_b, else_b) ==
    Node("IF_EXPR", <<Tok("IF_KW")>> \o cond \o then_b
                        \o (IF IsSome(else_b) THEN <<Tok("ELSE_KW")>> \o else_b ELSE <<>>))
ArgList(args) == Node("ARG_LIST", <<Tok("L_PAREN")>> \o args \o <<Tok("R_PAREN")>>)
MatchArm(pats, guard, e) ==
    Node("MATCH_ARM",
         pats \o (IF IsSome(guard) THEN <<Node("MATCH_GUARD", <<Tok("IF_KW")>> \o guard)>>
                  ELSE <<>>)
              \o <<Tok("FAT_ARROW")>> \o e)
MatchExpr(e, arm_list) ==
    Node("MATCH_EXPR", <<Tok("MATCH_KW")>> \o e \o arm_list)
MatchArmList(arms) ==
    Node("MATCH_ARM_LIST", <<Tok("L_CURLY")>> \o arms \o <<Tok("R_CURLY")>>)
NamedField(t, e) ==
    Node("NAMED_FIELD", <<NameRef(t)>> \o (IF IsSome(e) THEN <<Tok("COLON")>> \o e ELSE <<>>))
\* `S { fields ..spread }`: the parser puts the spread inside the field list.
StructLit(fields, spread) ==
    Node("STRUCT_LIT",
         <<PathOf("S"),
           Node("NAMED_FIELD_LIST",
                <<Tok("L_CURLY")>> \o fields
                    \o (IF IsSome(spread) THEN <<Tok("DOTDOT")>> \o spread ELSE <<>>)
                    \o <<Tok("R_CURLY")>>)>>)
Param(pat, ty) ==
    Node("PARAM", pat \o (IF IsSome(pat) /\ IsSome(ty) THEN <<Tok("COLON")>> ELSE <<>>) \o ty)
LambdaExpr(params, e) ==
    Node("LAMBDA_EXPR",
         <<Node("PARAM_LIST", <<Tok("PIPE")>> \o params \o <<Tok("PIPE")>>)>> \o e)

\* The expressions a body can start from: those that hold no other
\* expression.
Leaves ==
    {PathExpr("x"), TypePathExpr, Literal,
     Node("CONTINUE_EXPR", <<Tok("CONTINUE_KW")>>),
     Node("BREAK_EXPR", <<Tok("BREAK_KW")>>),
     Node("RETURN_EXPR", <<Tok("RETURN_KW")>>),
     Node("LABEL", <<Tok("LIFETIME"), Tok("COLON")>>),
     Node("PAREN_EXPR", <<Tok("L_PAREN")>>),
     Node("LOOP_EXPR", <<Tok("LOOP_KW")>>),
     StructLit(<<NamedField("g", None)>>, None)}

\* The expressions e can be wrapped into, by the kind of the wrapper.
ParenWrappers(e) == {Node("PAREN_EXPR", <<Tok("L_PAREN"), e, Tok("R_PAREN")>>)}
IfWrappers(e) ==
    {IfExpr(<<Condition(None, <<e>>)>>, <<BlockOf("y")>>, None),
     IfExpr(<<Condition(None, <<e>>)>>, <<BlockOf("y")>>, Some(BlockOf("z"))),
     IfExpr(<<Condition(None, <<e>>)>>, <<>>, None),
     IfExpr(<<Condition(None, <<PathExpr("x")>>)>>, <<Block(<<>>, Some(e))>>, None),
     IfExpr(<<>>, <<Block(<<>>, Some(e))>>, None),
     IfExpr(<<Condition(Some(BindPat("a")), <<e>>)>>, <<BlockOf("y")>>, Some(BlockOf("z"))),
     IfExpr(<<Condition(Some(BindPat("a")), <<PathExpr("x")>>)>>, <<BlockOf("y")>>,
            Some(Block(<<>>, Some(e)))),
     IfExpr(<<Condition(Some(BindPat("a")), <<>>)>>, <<Block(<<>>, Some(e))>>, None)}
        \cup {IfExpr(<<Condition(Some(p), <<e>>)>>, <<BlockOf("y")>>, None) : p \in Pats}
BlockWrappers(e) ==
    {Node("BLOCK_EXPR", <<b>>) :
        b \in {Block(<<>>, Some(e)),
               Block(<<ExprStmt(e)>>, None),
               Block(<<LetStmt(Some(BindPat("a")), None, Some(e))>>, Some(PathExpr("y"))),
               Block(<<LetStmt(Some(BindPat("a")), Some(PathType("T")), Some(PathExpr("y")))>>,
                     Some(e)),
               Block(<<LetStmt(Some(PlaceholderPat), None, None), ExprStmt(e)>>, None),
               Block(<<LetStmt(None, None, Some(e))>>, None)}}
LoopWrappers(e) ==
    {Node("LOOP_EXPR", <<Tok("LOOP_KW"), Block(<<>>, Some(e))>>),
     Node("WHILE_EXPR", <<Tok("WHILE_KW"), Condition(None, <<e>>), BlockOf("y")>>),
     Node("WHILE_EXPR", <<Tok("WHILE_KW"), Condition(None, <<PathExpr("x")>>),
                          Block(<<>>, Some(e))>>),
     Node("WHILE_EXPR", <<Tok("WHILE_KW"), Condition(Some(BindPat("a")), <<e>>),
                          BlockOf("y")>>),
     Node("WHILE_EXPR", <<Tok("WHILE_KW"), Block(<<>>, Some(e))>>),
     Node("FOR_EXPR", <<Tok("FOR_KW"), BindPat("a"), Tok("IN_KW"), e, BlockOf("y")>>),
     Node("FOR_EXPR", <<Tok("FOR_KW"), BindPat("a"), Tok("IN_KW"), PathExpr("x"),
                        Block(<<>>, Some(e))>>),
     Node("FOR_EXPR", <<Tok("FOR_KW"), Tok("IN_KW"), e>>)}
CallWrappers(e) ==
    {Node("CALL_EXPR", <<e, ArgList(<<>>)>>),
     Node("CALL_EXPR", <<e, ArgList(<<PathExpr("y"), Tok("COMMA"), Literal>>)>>),
     Node("CALL_EXPR", <<PathExpr("x"), ArgList(<<e, Tok("COMMA"), PathExpr("y")>>)>>),
     Node("CALL_EXPR", <<PathExpr("x"), ArgList(<<PathExpr("y"), Tok("COMMA"), e>>)>>),
     Node("METHOD_CALL_EXPR", <<e, Tok("DOT"), NameRef("m"), ArgList(<<>>)>>),
     Node("METHOD_CALL_EXPR", <<PathExpr("x"), Tok("DOT"), NameRef("m"),
                                ArgList(<<PathExpr("y"), Tok("COMMA"), e>>)>>),
     Node("METHOD_CALL_EXPR", <<e, Tok("DOT"), ArgList(<<PathExpr("y")>>)>>)}
MatchWrappers(e) ==
    {MatchExpr(<<e>>, <<MatchArmList(<<>>)>>),
     MatchExpr(<<e>>, <<>>),
     MatchExpr(<<e>>,
               <<MatchArmList(<<MatchArm(<<BindPat("a")>>, None, <<PathExpr("y")>>),
                                Tok("COMMA"),
                                MatchArm(<<PlaceholderPat>>, None, <<>>)>>)>>),
     MatchExpr(<<PathExpr("x")>>,
               <<MatchArmList(<<MatchArm(<<BindPat("a"), Tok("PIPE"),
                                          TupleStructPat("S", <<BindPat("b")>>)>>,
                                        None, <<e>>)>>)>>),
     MatchExpr(<<PathExpr("x")>>,
               <<MatchArmList(<<MatchArm(<<BindPat("a")>>, Some(e), <<PathExpr("y")>>)>>)>>)}
JumpWrappers(e) ==
    {Node("BREAK_EXPR", <<Tok("BREAK_KW"), e>>),
     Node("RETURN_EXPR", <<Tok("RETURN_KW"), e>>)}
StructLitWrappers(e) ==
    {StructLit(<<NamedField("f", Some(e))>>, None),
     StructLit(<<NamedField("f", Some(e)), Tok("COMMA"), NamedField("g", None)>>, None),
     StructLit(<<NamedField("g", None), Tok("COMMA")>>, Some(e)),
     \* a field that holds neither a name nor an expression
     StructLit(<<NamedField("f", Some(e)), Tok("COMMA"),
                 Node("NAMED_FIELD", <<Tok("COLON")>>)>>, None)}
UnaryWrappers(e) ==
    {Node("FIELD_EXPR", <<e, Tok("DOT"), NameRef("f")>>),
     Node("FIELD_EXPR", <<e, Tok("DOT")>>),
     Node("TRY_EXPR", <<e, Tok("QUESTION")>>),
     Node("CAST_EXPR", <<e, Tok("AS_KW"), PathType("T")>>),
     Node("CAST_EXPR", <<e, Tok("AS_KW")>>),
     Node("REF_EXPR", <<Tok("AMP"), e>>),
     Node("REF_EXPR", <<Tok("AMP"), Tok("MUT_KW"), e>>),
     Node("PREFIX_EXPR", <<Tok("MINUS"), e>>),
     Node("PREFIX_EXPR", <<Tok("EXCL"), e>>)}
LambdaWrappers(e) ==
    {LambdaExpr(<<Param(Some(BindPat("a")), None)>>, <<e>>),
     LambdaExpr(<<Param(Some(BindPat("a")), Some(PathType("T"))), Tok("COMMA"),
                  Param(Some(PlaceholderPat), None)>>, <<e>>)}
BinWrappers(e) ==
    {Node("BIN_EXPR", <<e, Tok("EQEQ"), PathExpr("y")>>),
     Node("BIN_EXPR", <<PathExpr("y"), Tok("AMPAMP"), e>>),
     Node("BIN_EXPR", <<e, Tok("PLUS"), PathExpr("y")>>),
     Node("BIN_EXPR", <<e, Tok("EQEQ")>>)}
OtherWrappers(e) ==
    {Node("INDEX_EXPR", <<e, Tok("L_BRACK"), PathExpr("y"), Tok("R_BRACK")>>),
     Node("TUPLE_EXPR", <<Tok("L_PAREN"), e, Tok("COMMA"), PathExpr("y"), Tok("R_PAREN")>>),
     Node("ARRAY_EXPR", <<Tok("L_BRACK"), e, Tok("R_BRACK")>>),
     Node("RANGE_EXPR", <<e, Tok("DOTDOT"), PathExpr("y")>>)}
Wrappers(e) ==
    ParenWrappers(e) \cup IfWrappers(e) \cup BlockWrappers(e) \cup LoopWrappers(e)
        \cup CallWrappers(e) \cup MatchWrappers(e) \cup JumpWrappers(e)
        \cup StructLitWrappers(e) \cup UnaryWrappers(e) \cup LambdaWrappers(e)
        \cup BinWrappers(e) \cup OtherWrappers(e)

\* The expressions a body starts from: the leaves, `(x)` and `{ x }`.
Seeds ==
    Leaves \cup {Node("PAREN_EXPR", <<Tok("L_PAREN"), PathExpr("x"), Tok("R_PAREN")>>),
                 Node("BLOCK_EXPR", <<BlockOf("x")>>)}

\* The parameter lists: none, `(a: T, T)` whose second parameter has no
\* pattern, and `(&self, S(b))`.
ParamLists ==
    {None,
     Some(Node("PARAM_LIST",
               <<Tok("L_PAREN"), Param(Some(BindPat("a")), Some(PathType("T"))),
                 Tok("COMMA"), Param(None, Some(PathType("T"))), Tok("R_PAREN")>>)),
     Some(Node("PARAM_LIST",
               <<Tok("L_PAREN"), Node("SELF_PARAM", <<Tok("AMP"), Tok("SELF_KW")>>),
                 Tok("COMMA"), Param(Some(TupleStructPat("S", <<BindPat("b")>>)), None),
                 Tok("R_PAREN")>>))}

\* `fn f params { tail }`, or `fn f params;` for a function without body.
FnDef(params, tail) ==
    Node("FN_DEF", <<Tok("FN_KW"), NameN("f")>> \o params
                       \o (IF IsSome(tail) THEN <<Block(<<>>, tail)>> ELSE <<Tok("SEMI")>>))

\* The source file of the function, and the function's node in it.
SourceFile == Node("SOURCE_FILE", <<FnDef(fn_params, fn_tail)>>)
fn_syntax(file) == Unwrap(child_opt(Root(file), {"FN_DEF"}))

\* An edit of the file: the body's expression is wrapped into a larger one.
edit_wrap(w) ==
    /\ lpc = "editing"
    /\ nwraps < MaxWraps
    /\ fn_tail' = Some(w)
    /\ nwraps' = nwraps + 1
    /\ UNCHANGED <<def, fn_params, bsm, lpc>>
    /\ UNCHANGED otherVarsOfLower

\* The kinds of definition a DefId resolves to.
DefKinds == {"Module", "Function", "Struct", "Enum", "Item"}

\* Mutant of body_syntax_mapping: the kind of the definition is not looked
\* at.
body_syntax_mapping_any_kind(resolved, node) ==
    IF ~IsOk(resolved) THEN Canceled
    ELSE Ok(collect_fn_body_syntax(node))

\* body_syntax_mapping: `resolved` is what `def_id.resolve(db)` answers and
\* node is `f.syntax(db)`, the FN_DEF of the function resolved to.
body_syntax_mapping(resolved, node) ==
    IF ~IsOk(resolved) THEN Canceled
    ELSE IF resolved.value = "Function"
    THEN Bind(collect_fn_body_syntax(node), LAMBDA m :
         IF m.panicked THEN Panic ELSE Ok(m))
    ELSE Panic

\* A request for the body of the definition.
Call_body_syntax_mapping ==
    /\ lpc = "editing"
    /\ \E r \in {body_syntax_mapping(def, fn_syntax(SourceFile))} :
       /\ bsm' = IF IsOk(r) THEN Some(r.value) ELSE None
       /\ lpc' = CASE IsOk(r) -> "lowered"
                   [] r = Canceled -> "cancelled"
                   [] r = Panic /\ IsOk(def) /\ def.value = "Function" -> "panicked"
                   [] OTHER -> "no_body"
    /\ UNCHANGED <<def, fn_params, fn_tail, nwraps>>
    /\ UNCHANGED otherVarsOfLower

InitLower ==
    /\ IdleQuery
    /\ IdleGraph
    /\ IdleDfs
    /\ IdlePtr
    /\ IdleKw
    /\ def \in {Canceled} \cup {Ok(k) : k \in DefKinds}
    \* the file is looked at for a function only
    /\ fn_params \in (IF def = Ok("Function") THEN ParamLists ELSE {None})
    /\ fn_tail \in (IF def = Ok("Function") THEN {None} \cup {Some(e) : e \in Seeds}
                    ELSE {None})
    /\ nwraps = 0
    /\ bsm = None
    /\ lpc = "editing"

NextLower ==
    \/ \E w \in (IF IsSome(fn_tail) THEN Wrappers(Unwrap(fn_tail)) ELSE {}) : edit_wrap(w)
    \/ Call_body_syntax_mapping

SpecLower == InitLower /\ [][NextLower]_vars

\* ------------------------------------------------------------------------
\* Body lowering: properties
\* ------------------------------------------------------------------------

\* Lowering is done, and the mapping it computed.
Lowered == lpc = "lowered"
Mapping == Unwrap(bsm)

\* The ids of a mapping's arenas, and the expression and pattern of an id.
ExprIds(m) == 0 .. (Len(m.body.exprs) - 1)
PatIds(m) == 0 .. (Len(m.body.pats) - 1)
ExprOf(m, id) == m.body.exprs[id + 1]
PatOf(m, id) == m.body.pats[id + 1]

\* The located nodes of a file, and their pointers.
FileNodes(file) == {NodeAt(file, path) : path \in Paths(file)}
FilePtrs(file) == {LocalSyntaxPtr_new(ln) : ln \in FileNodes(file)}

\* The function's body block and the expression it consists of, as Options.
BodyBlock(file) == child_opt(fn_syntax(file), {"BLOCK"})
BodyTail(file) == child_opt_of(BodyBlock(file), ExprKinds)

\* The expressions lowering makes up without a syntax node of their own: the
\* placeholder and the empty block.
SynthesizedExprs == {Expr_Missing, Expr_Block(<<>>, None)}

\* C9: the two directions of a BodySyntaxMapping agree.  An id that has a
\* pointer has the pointer of a node of the function, and the forward map
\* leads from that pointer back to the id; an id without a pointer is a
\* synthesized node (a placeholder, or the empty else block of `if let`);
\* the body block and the expression it consists of, being real syntax,
\* have ids with their own pointers.
C9_MapsAgree ==
    Lowered =>
        LET m == Mapping
            ptrs == FilePtrs(SourceFile)
            block == BodyBlock(SourceFile)
            tail == BodyTail(SourceFile)
        IN
        /\ \A id \in ExprIds(m) :
               IF IsSome(expr_syntax(m, id))
               THEN /\ Unwrap(expr_syntax(m, id)) \in ptrs
                    /\ syntax_expr(m, Unwrap(expr_syntax(m, id))) = Some(id)
               ELSE ExprOf(m, id) \in SynthesizedExprs
        /\ \A id \in PatIds(m) :
               IF IsSome(pat_syntax(m, id))
               THEN /\ Unwrap(pat_syntax(m, id)) \in ptrs
                    /\ syntax_pat(m, Unwrap(pat_syntax(m, id))) = Some(id)
               ELSE PatOf(m, id) = Pat_Missing
        /\ DOMAIN m.expr_syntax_mapping_back \subseteq ExprIds(m)
        /\ DOMAIN m.pat_syntax_mapping_back \subseteq PatIds(m)
        /\ IsSome(block) =>
               /\ node_expr(m, Unwrap(block)) = Some(m.body.body_expr)
               /\ expr_syntax(m, m.body.body_expr) = Some(LocalSyntaxPtr_new(Unwrap(block)))
        /\ (IsSome(tail) /\ kind(Unwrap(tail)) \notin {"PAREN_EXPR", "BLOCK_EXPR"}) =>
               /\ IsSome(node_expr(m, Unwrap(tail)))
               /\ expr_syntax(m, Unwrap(node_expr(m, Unwrap(tail))))
                      = Some(LocalSyntaxPtr_new(Unwrap(tail)))
               /\ ExprOf(m, m.body.body_expr).tail = node_expr(m, Unwrap(tail))

\* An `if let` without else was lowered: the match has a pointer, its empty
\* else block and its catch-all pattern have none, and the pattern written
\* has one.
C9_Witness ==
    /\ Lowered
    /\ LET m == Mapping IN
       \E id \in ExprIds(m) :
           /\ ExprOf(m, id).tag = "Match"
           /\ IsSome(expr_syntax(m, id))
           /\ Len(ExprOf(m, id).arms) = 2
           /\ expr_syntax(m, ExprOf(m, id).arms[2].expr) = None
           /\ ExprOf(m, ExprOf(m, id).arms[2].expr) = Expr_Block(<<>>, None)
           /\ pat_syntax(m, ExprOf(m, id).arms[2].pats[1]) = None
           /\ IsSome(pat_syntax(m, ExprOf(m, id).arms[1].pats[1]))

\* The syntax without its parentheses: every PAREN_EXPR that holds an
\* expression is replaced by that expression.
RECURSIVE StripParens(_)
RECURSIVE StripParensOfAll(_)
StripParensOfAll(kids) ==
    IF kids = <<>> THEN <<>>
    ELSE <<StripParens(Head(kids))>> \o StripParensOfAll(Tail(kids))
StripParens(n) ==
    IF n.kids = <<>> THEN n
    ELSE IF n.kind = "PAREN_EXPR" /\ \E i \in 1 .. Len(n.kids) : n.kids[i].kind \in ExprKinds
    THEN StripParens(n.kids[CHOOSE i \in 1 .. Len(n.kids) :
                               /\ n.kids[i].kind \in ExprKinds
                               /\ \A j \in 1 .. (i - 1) : n.kids[j].kind \notin ExprKinds])
    ELSE Node(n.kind, StripParensOfAll(n.kids))

\* The parenthesized expressions of a file: the PAREN_EXPR nodes that hold
\* an expression; and the expression such a node holds.
ParenNodes(file) ==
    {ln \in FileNodes(file) : kind(ln) = "PAREN_EXPR" /\ IsSome(child_opt(ln, ExprKinds))}
InnerOf(ln) == Unwrap(child_opt(ln, ExprKinds))

\* C10: a parenthesized expression gets no entry of its own.  The body is
\* the one the function has without its parentheses (so `(e)` has the id
\* that `e` alone has, and the arena has no entry more); the pointer of
\* `(e)` leads to the id the pointer of `e` leads to; and that id's pointer
\* is the one of `e`, never the one of `(e)`.
C10_ParenTransparent ==
    Lowered =>
        LET m == Mapping
            tail == BodyTail(SourceFile)
        IN
        /\ m.body = collect_fn_body_syntax(fn_syntax(StripParens(SourceFile))).body
        /\ \A ln \in ParenNodes(SourceFile) :
               /\ kind(InnerOf(ln)) # "BLOCK_EXPR" =>
                      node_expr(m, ln) = node_expr(m, InnerOf(ln))
               /\ IsSome(node_expr(m, ln)) =>
                      /\ expr_syntax(m, Unwrap(node_expr(m, ln)))
                             # Some(LocalSyntaxPtr_new(ln))
                      /\ kind(InnerOf(ln)) \notin {"PAREN_EXPR", "BLOCK_EXPR"} =>
                             expr_syntax(m, Unwrap(node_expr(m, ln)))
                                 = Some(LocalSyntaxPtr_new(InnerOf(ln)))
               /\ Some(ln) = tail =>
                      /\ IsSome(node_expr(m, ln))
                      /\ ExprOf(m, m.body.body_expr).tail = node_expr(m, ln)

\* The body `(x)` was lowered: the parenthesis has an id, which is a path.
C10_Witness ==
    /\ Lowered
    /\ LET m == Mapping IN
       \E ln \in ParenNodes(SourceFile) :
           /\ Some(ln) = BodyTail(SourceFile)
           /\ kind(InnerOf(ln)) = "PATH_EXPR"
           /\ IsSome(node_expr(m, ln))
           /\ ExprOf(m, Unwrap(node_expr(m, ln))).tag = "Path"

\* ------------------------------------------------------------------------
\* Body lowering: the shape of what is lowered
\* ------------------------------------------------------------------------

\* The id lowering gives to the expression node e: the one registered under
\* its pointer; a BLOCK_EXPR is registered under the pointer of its block.
LoweredId(m, e) ==
    IF kind(e) = "BLOCK_EXPR" /\ IsSome(child_opt(e, {"BLOCK"}))
    THEN node_expr(m, Unwrap(child_opt(e, {"BLOCK"})))
    ELSE node_expr(m, e)

\* id stands for the optional expression node o: the id of the node when
\* there is one, and a placeholder without pointer when there is none.
StandsFor(m, id, o) ==
    IF IsSome(o)
    THEN LoweredId(m, Unwrap(o)) = Some(id)
    ELSE /\ id \in ExprIds(m)
         /\ ExprOf(m, id) = Expr_Missing
         /\ expr_syntax(m, id) = None

\* The nodes of a kind that lowering reached: those registered with the id
\* whose own pointer they are.
LoweredNodes(m, file, K) ==
    {ln \in FileNodes(file) :
        /\ kind(ln) \in K
        /\ IsSome(node_expr(m, ln))
        /\ expr_syntax(m, Unwrap(node_expr(m, ln))) = Some(LocalSyntaxPtr_new(ln))}

\* The condition of an `if` or `while`: its pattern and its expression.
CondPat(ln) == child_opt_of(child_opt(ln, {"CONDITION"}), PatKinds)
CondExpr(ln) == child_opt_of(child_opt(ln, {"CONDITION"}), ExprKinds)

\* C11: `if let PAT = E { A } else { B }` is lowered to a match over E with
\* the two arms (PAT -> A) and (a placeholder pattern without pointer -> B),
\* in this order, where B is an empty block without pointer when there is
\* no else; an `if` without pattern is lowered to Expr::If of its condition
\* and its then branch, whose else_branch is None exactly when there is no
\* else block.
C11_IfLowering ==
    Lowered =>
        LET m == Mapping IN
        \A ln \in LoweredNodes(m, SourceFile, {"IF_EXPR"}) :
            LET x == ExprOf(m, Unwrap(node_expr(m, ln))) IN
            IF IsSome(CondPat(ln))
            THEN /\ x.tag = "Match"
                 /\ StandsFor(m, x.expr, CondExpr(ln))
                 /\ Len(x.arms) = 2
                 /\ x.arms[1].pats = <<Unwrap(node_pat(m, Unwrap(CondPat(ln))))>>
                 /\ pat_syntax(m, x.arms[1].pats[1])
                        = Some(LocalSyntaxPtr_new(Unwrap(CondPat(ln))))
                 /\ StandsFor(m, x.arms[1].expr, then_branch(ln))
                 /\ Len(x.arms[2].pats) = 1
                 /\ PatOf(m, x.arms[2].pats[1]) = Pat_Missing
                 /\ pat_syntax(m, x.arms[2].pats[1]) = None
                 /\ IF IsSome(else_branch(ln))
                    THEN node_expr(m, Unwrap(else_branch(ln))) = Some(x.arms[2].expr)
                    ELSE /\ ExprOf(m, x.arms[2].expr) = Expr_Block(<<>>, None)
                         /\ expr_syntax(m, x.arms[2].expr) = None
            ELSE /\ x.tag = "If"
                 /\ StandsFor(m, x.condition, CondExpr(ln))
                 /\ StandsFor(m, x.then_branch, then_branch(ln))
                 /\ (x.else_branch = None) <=> (else_branch(ln) = None)
                 /\ IsSome(else_branch(ln)) =>
                        x.else_branch = node_expr(m, Unwrap(else_branch(ln)))

\* An `if let` without else was lowered: it is a match whose second arm
\* leads to an empty block.
C11_Witness ==
    /\ Lowered
    /\ LET m == Mapping IN
       \E ln \in LoweredNodes(m, SourceFile, {"IF_EXPR"}) :
           /\ IsSome(CondPat(ln))
           /\ else_branch(ln) = None
           /\ ExprOf(m, Unwrap(node_expr(m, ln))).tag = "Match"
           /\ ExprOf(m, ExprOf(m, Unwrap(node_expr(m, ln))).arms[2].expr)
                  = Expr_Block(<<>>, None)

\* The fields of a struct literal, in the order written.
FieldsOf(ln) ==
    IF IsSome(child_opt(ln, {"NAMED_FIELD_LIST"}))
    THEN ast_children(Unwrap(child_opt(ln, {"NAMED_FIELD_LIST"})), {"NAMED_FIELD"})
    ELSE <<>>

\* C12: the fields of a lowered struct literal are those written, in order.
\* A field with an explicit expression has the id of that expression; a
\* field in shorthand (a name reference, no expression) has a fresh
\* Expr::Path of that name, and both maps connect its id and the pointer of
\* the name-reference node; a field with neither has a placeholder without
\* pointer.
C12_StructLitFields ==
    Lowered =>
        LET m == Mapping IN
        \A ln \in LoweredNodes(m, SourceFile, {"STRUCT_LIT"}) :
            LET x == ExprOf(m, Unwrap(node_expr(m, ln)))
                fields == FieldsOf(ln)
            IN
            /\ x.tag = "StructLit"
            /\ Len(x.fields) = Len(fields)
            /\ \A i \in 1 .. Len(fields) :
                   LET id == x.fields[i].expr
                       e == child_opt(fields[i], ExprKinds)
                       nr == child_opt(fields[i], {"NAME_REF"})
                   IN
                   IF IsSome(e) THEN StandsFor(m, id, e)
                   ELSE IF IsSome(nr)
                   THEN /\ ExprOf(m, id)
                               = [tag |-> "Path",
                                  path |-> [segments |-> <<children(Unwrap(nr))[1].n.text>>]]
                        /\ expr_syntax(m, id) = Some(LocalSyntaxPtr_new(Unwrap(nr)))
                        /\ node_expr(m, Unwrap(nr)) = Some(id)
                        /\ x.fields[i].name = children(Unwrap(nr))[1].n.text
                   ELSE StandsFor(m, id, None)

\* A struct literal with a field in shorthand was lowered, and the
\* shorthand's path has the pointer of a NAME_REF.
C12_Witness ==
    /\ Lowered
    /\ LET m == Mapping IN
       \E ln \in LoweredNodes(m, SourceFile, {"STRUCT_LIT"}) :
           \E i \in 1 .. Len(FieldsOf(ln)) :
               /\ child_opt(FieldsOf(ln)[i], ExprKinds) = None
               /\ IsSome(child_opt(FieldsOf(ln)[i], {"NAME_REF"}))
               /\ LET id == ExprOf(m, Unwrap(node_expr(m, ln))).fields[i].expr IN
                  /\ ExprOf(m, id).tag = "Path"
                  /\ IsSome(expr_syntax(m, id))
                  /\ Unwrap(expr_syntax(m, id)).kind = "NAME_REF"

\* The nodes of the file that have an expression id of their own, each as
\* its path, its range and its id.
IsPrefix(p, q) == Len(p) < Len(q) /\ SubSeq(q, 1, Len(p)) = p
OwnIds(m, file) ==
    {[path |-> p, range |-> range(NodeAt(file, p)),
      id |-> Unwrap(node_expr(m, NodeAt(file, p)))] :
        p \in {q \in Paths(file) :
                  /\ IsSome(node_expr(m, NodeAt(file, q)))
                  /\ expr_syntax(m, Unwrap(node_expr(m, NodeAt(file, q))))
                         = Some(LocalSyntaxPtr_new(NodeAt(file, q)))}}

\* a is nested in b; a lies before b in the text.
NestedIn(a, b) == IsPrefix(b.path, a.path)
Before(a, b) == a.range.end <= b.range.start

\* C16 as stated: ids are allocated in pre-order, an expression before the
\* expressions nested in it, and an expression before those that follow it
\* in the text.
C16_PreOrder ==
    Lowered =>
        LET own == OwnIds(Mapping, SourceFile) IN
        \A a \in own : \A b \in own :
            /\ NestedIn(b, a) => a.id < b.id
            /\ Before(a, b) => a.id < b.id

\* C16, amended: ids are allocated in post-order.  An expression gets its
\* id after all expressions nested in it, and before every expression that
\* follows it in the text.
C16_PostOrder ==
    Lowered =>
        LET own == OwnIds(Mapping, SourceFile) IN
        \A a \in own : \A b \in own :
            /\ NestedIn(b, a) => b.id < a.id
            /\ Before(a, b) => a.id < b.id

\* A body was lowered in which one expression is nested in another and one
\* expression follows another.
C16_Witness ==
    /\ Lowered
    /\ LET own == OwnIds(Mapping, SourceFile) IN
       /\ \E a \in own : \E b \in own : NestedIn(b, a) /\ b.id < a.id
       /\ \E a \in own : \E b \in own : Before(a, b) /\ a.id < b.id

\* Every place of a body that stores an ExprId, as one sequence of the ids
\* stored: body_expr, then the children of each expression of the arena.
AllExprRefs(m) ==
    <<m.body.body_expr>>
        \o Concat([i \in 1 .. Len(m.body.exprs) |-> walk_child_exprs(m.body.exprs[i])])

\* The children the syntax must have, by the field of the Expr that holds
\* their id: the pairs of a field and the optional child node.
MandatoryChildren(ln) ==
    CASE kind(ln) = "IF_EXPR" /\ CondPat(ln) = None ->
             {<<"condition", CondExpr(ln)>>, <<"then_branch", then_branch(ln)>>}
      [] kind(ln) = "IF_EXPR" /\ CondPat(ln) # None -> {<<"expr", CondExpr(ln)>>}
      [] kind(ln) = "LOOP_EXPR" -> {<<"body", child_opt(ln, {"BLOCK"})>>}
      [] kind(ln) = "WHILE_EXPR" /\ CondPat(ln) = None ->
             {<<"condition", CondExpr(ln)>>, <<"body", child_opt(ln, {"BLOCK"})>>}
      [] kind(ln) = "FOR_EXPR" ->
             {<<"iterable", child_opt(ln, ExprKinds)>>, <<"body", child_opt(ln, {"BLOCK"})>>}
      [] kind(ln) = "CALL_EXPR" -> {<<"callee", child_opt(ln, ExprKinds)>>}
      [] kind(ln) = "METHOD_CALL_EXPR" -> {<<"receiver", child_opt(ln, ExprKinds)>>}
      [] kind(ln) = "LAMBDA_EXPR" -> {<<"body", child_opt(ln, ExprKinds)>>}
      [] kind(ln) = "BIN_EXPR" -> {<<"lhs", lhs(ln)>>, <<"rhs", rhs(ln)>>}
      [] kind(ln) \in {"MATCH_EXPR", "FIELD_EXPR", "TRY_EXPR", "CAST_EXPR", "REF_EXPR",
                       "PREFIX_EXPR"} -> {<<"expr", child_opt(ln, ExprKinds)>>}
      [] OTHER -> {}

\* C17: in a lowered Body every stored ExprId and PatId is an index of the
\* Body's own arenas: body_expr, args, and the ids held by every Expr and
\* Pat.  No id is stored in two places.  A child the syntax must have and
\* does not have is a placeholder of its own: Expr::Missing, without
\* pointer; a `for` without pattern has Pat::Missing, without pointer.
C17_ValidIds ==
    Lowered =>
        LET m == Mapping
            refs == AllExprRefs(m)
        IN
        /\ SeqRange(refs) \subseteq ExprIds(m)
        /\ Cardinality(SeqRange(refs)) = Len(refs)
        /\ SeqRange(m.body.args) \subseteq PatIds(m)
        /\ \A id \in ExprIds(m) : SeqRange(expr_pats(ExprOf(m, id))) \subseteq PatIds(m)
        /\ \A id \in PatIds(m) : SeqRange(walk_child_pats(PatOf(m, id))) \subseteq PatIds(m)
        /\ \A ln \in LoweredNodes(m, SourceFile, ExprKinds) :
               LET x == ExprOf(m, Unwrap(node_expr(m, ln))) IN
               /\ \A fc \in MandatoryChildren(ln) : StandsFor(m, x[fc[1]], fc[2])
               /\ (kind(ln) = "FOR_EXPR" /\ child_opt(ln, PatKinds) = None) =>
                      /\ PatOf(m, x.pat) = Pat_Missing
                      /\ pat_syntax(m, x.pat) = None

\* An expression that lacks a child it must have was lowered, and the
\* field of the child holds a placeholder.
C17_Witness ==
    /\ Lowered
    /\ LET m == Mapping IN
       \E ln \in LoweredNodes(m, SourceFile, ExprKinds) :
           \E fc \in MandatoryChildren(ln) :
               /\ fc[2] = None
               /\ ExprOf(m, ExprOf(m, Unwrap(node_expr(m, ln)))[fc[1]]) = Expr_Missing

\* The expression forms and the pattern forms that have no HIR yet.
UnimplementedExprKinds ==
    {"LABEL", "INDEX_EXPR", "TUPLE_EXPR", "ARRAY_EXPR", "RANGE_EXPR", "LITERAL"}
UnimplementedPatKinds == PatKinds \ {"BIND_PAT", "TUPLE_STRUCT_PAT"}

NodesBelow(ln) == {Descend(ln, p) : p \in Paths(ln.n) \ {<<>>}}

\* C19: a `while let` is lowered to one Expr::Missing under the pointer of
\* the while node and nothing below it is lowered, neither its condition
\* (pattern and expression) nor its body; a `while` without pattern is
\* lowered to Expr::While of its condition and its body, the condition
\* being a placeholder when it is absent.
C19_WhileLowering ==
    Lowered =>
        LET m == Mapping IN
        /\ \A ln \in FileNodes(SourceFile) :
               (kind(ln) = "WHILE_EXPR" /\ Some(ln) = BodyTail(SourceFile)) =>
                   ln \in LoweredNodes(m, SourceFile, {"WHILE_EXPR"})
        /\ \A ln \in LoweredNodes(m, SourceFile, {"WHILE_EXPR"}) :
               LET x == ExprOf(m, Unwrap(node_expr(m, ln))) IN
               IF IsSome(CondPat(ln))
               THEN /\ x = Expr_Missing
                    /\ \A d \in NodesBelow(ln) :
                           node_expr(m, d) = None /\ node_pat(m, d) = None
                    /\ Some(ln) = BodyTail(SourceFile) => Len(m.body.exprs) = 2
               ELSE /\ x.tag = "While"
                    /\ StandsFor(m, x.condition, CondExpr(ln))
                    /\ StandsFor(m, x.body, child_opt(ln, {"BLOCK"}))

\* A `while let` with a condition and a body was lowered, to a placeholder.
C19_Witness ==
    /\ Lowered
    /\ LET m == Mapping IN
       \E ln \in LoweredNodes(m, SourceFile, {"WHILE_EXPR"}) :
           /\ IsSome(CondPat(ln))
           /\ IsSome(CondExpr(ln))
           /\ IsSome(child_opt(ln, {"BLOCK"}))
           /\ ExprOf(m, Unwrap(node_expr(m, ln))) = Expr_Missing

\* The parameter list of the function, its self parameter, and the patterns
\* of its other parameters in the order declared.
ParamListOf(file) == child_opt(fn_syntax(file), {"PARAM_LIST"})
SelfParamOf(file) == child_opt_of(ParamListOf(file), {"SELF_PARAM"})
ParamPatsOf(file) ==
    IF IsSome(ParamListOf(file))
    THEN LET ps == SelectSeq(ast_children(Unwrap(ParamListOf(file)), {"PARAM"}),
                             LAMBDA q : IsSome(child_opt(q, PatKinds)))
         IN [i \in 1 .. Len(ps) |-> Unwrap(child_opt(ps[i], PatKinds))]
    ELSE <<>>

\* C20: the args of a lowered Body.  With a self parameter the first is a
\* Pat::Bind of the name self, connected in both maps with the pointer of
\* the `self` keyword; then come the patterns of the parameters, in the
\* order declared, each under its own pointer; a function without
\* parameter list has no args.
C20_Args ==
    Lowered =>
        LET m == Mapping
            args == m.body.args
            self_param == SelfParamOf(SourceFile)
            pats == ParamPatsOf(SourceFile)
            k == IF IsSome(self_param) THEN 1 ELSE 0
        IN
        /\ ParamListOf(SourceFile) = None => args = <<>>
        /\ Len(args) = k + Len(pats)
        /\ IsSome(self_param) =>
               LET kw == Unwrap(child_opt(Unwrap(self_param), {"SELF_KW"})) IN
               /\ PatOf(m, args[1]) = [tag |-> "Bind", name |-> "self"]
               /\ pat_syntax(m, args[1]) = Some(LocalSyntaxPtr_new(kw))
               /\ LocalSyntaxPtr_new(kw).kind = "SELF_KW"
               /\ syntax_pat(m, LocalSyntaxPtr_new(kw)) = Some(args[1])
        /\ \A i \in 1 .. Len(pats) :
               /\ node_pat(m, pats[i]) = Some(args[k + i])
               /\ pat_syntax(m, args[k + i]) = Some(LocalSyntaxPtr_new(pats[i]))

\* A function with a self parameter and another parameter was lowered.
C20_Witness ==
    /\ Lowered
    /\ IsSome(SelfParamOf(SourceFile))
    /\ Len(ParamPatsOf(SourceFile)) >= 1
    /\ Len(Mapping.body.args) = 2
    /\ PatOf(Mapping, Mapping.body.args[1]).tag = "Bind"
    /\ PatOf(Mapping, Mapping.body.args[2]).tag = "TupleStruct"

\* The ExprIds a field of an Expr holds, by the declaration of the field
\* in the enum: an ExprId, an Option<ExprId>, a Vec<ExprId>, or a vector of
\* statements, match arms or struct-literal fields that hold one each.  The
\* `args` of a Lambda are PatIds.
ExprIdsOfField(x, f) ==
    CASE f \in {"condition", "then_branch", "body", "iterable", "callee", "receiver",
                "lhs", "rhs"} -> {x[f]}
      [] f = "expr" -> IF x.tag \in {"Break", "Return"} THEN SeqRange(x[f]) ELSE {x[f]}
      [] f \in {"else_branch", "tail", "spread"} -> SeqRange(x[f])
      [] f = "args" -> IF x.tag = "Lambda" THEN {} ELSE SeqRange(x[f])
      [] f \in {"arms", "fields"} -> {x[f][i].expr : i \in 1 .. Len(x[f])}
      [] f = "statements" ->
             UNION {IF x[f][i].tag = "Let" THEN SeqRange(x[f][i].initializer)
                    ELSE {x[f][i].expr} : i \in 1 .. Len(x[f])}
      [] OTHER -> {}
DirectChildIds(x) == UNION {ExprIdsOfField(x, f) : f \in DOMAIN x}

ParentsOf(m, id) == {p \in ExprIds(m) : id \in DirectChildIds(ExprOf(m, p))}

\* How many times the sequence q holds v.
Occurrences(q, v) == Cardinality({i \in 1 .. Len(q) : q[i] = v})

\* C28: a lowered Body is a tree over its arena.  Every expression holds
\* only ids smaller than its own; every id of the arena but body_expr is
\* held by exactly one expression, in exactly one of its fields; body_expr
\* is held by none.
C28_BodyIsTree ==
    Lowered =>
        LET m == Mapping IN
        /\ m.body.body_expr \in ExprIds(m)
        /\ \A id \in ExprIds(m) :
               /\ \A c \in DirectChildIds(ExprOf(m, id)) : c \in ExprIds(m) /\ c < id
               /\ id # m.body.body_expr =>
                      /\ Cardinality(ParentsOf(m, id)) = 1
                      /\ \A p \in ParentsOf(m, id) :
                             Occurrences(walk_child_exprs(ExprOf(m, p)), id) = 1
               /\ id = m.body.body_expr => ParentsOf(m, id) = {}

\* A body of at least five expressions, one of them with three children and
\* one of them a placeholder without syntax, was lowered.
C28_Witness ==
    /\ Lowered
    /\ LET m == Mapping IN
       /\ Len(m.body.exprs) >= 5
       /\ \E id \in ExprIds(m) : Cardinality(DirectChildIds(ExprOf(m, id))) = 3
       /\ \E id \in ExprIds(m) : expr_syntax(m, id) = None

\* The expressions collect_expr is called with and the place the id it
\* returns is stored: the tail of a lowered block, and the children of a
\* lowered expression that collect_expr_opt is called with.
CollectedUnder(m, file) ==
    {<<Unwrap(child_opt(b, ExprKinds)), Unwrap(ExprOf(m, Unwrap(node_expr(m, b))).tail)>> :
        b \in {b \in LoweredNodes(m, file, {"BLOCK"}) :
                  /\ IsSome(child_opt(b, ExprKinds))
                  /\ ExprOf(m, Unwrap(node_expr(m, b))).tag = "Block"
                  /\ IsSome(ExprOf(m, Unwrap(node_expr(m, b))).tail)}}
    \cup
    UNION {{<<Unwrap(fc[2]), ExprOf(m, Unwrap(node_expr(m, ln)))[fc[1]]>> :
               fc \in {fc \in MandatoryChildren(ln) :
                          /\ IsSome(fc[2])
                          /\ kind(Unwrap(fc[2])) \in ExprKinds
                          /\ fc[1] \in DOMAIN ExprOf(m, Unwrap(node_expr(m, ln)))}} :
           ln \in LoweredNodes(m, file, ExprKinds)}

\* C29: every expression node collect_expr is called with, a block
\* expression included, is afterwards found by node_expr, with the id that
\* collect_expr returned for it.
C29_NodeExprOfCollected ==
    Lowered =>
        \A ce \in CollectedUnder(Mapping, SourceFile) :
            node_expr(Mapping, ce[1]) = Some(ce[2])

MaxKwWraps == 2

\* `fn name() -> T { e }`; the return type is there when ret holds.
KwFnDef(name, ret, e) ==
    Node("FN_DEF",
         <<Tok("FN_KW"), NameN(name),
           Node("PARAM_LIST", <<Tok("L_PAREN"), Tok("R_PAREN")>>)>>
             \o (IF ret THEN <<Node("RET_TYPE", <<Tok("THIN_ARROW"), PathType("T")>>)>>
                 ELSE <<>>)
             \o <<Block(<<>>, Some(e))>>)

\* The file completed in: a stray identifier, outside of any function, and
\* the function.
KwFile == Node("SOURCE_FILE", <<Node("ERROR", <<Ident("u")>>), KwFnDef("f", kw_ret, kw_body)>>)

\* The expressions e can be wrapped into: `loop { e }`, `while e { y }`,
\* `while x { e }`, `for a in e { y }`, `for a in x { e }`, `|a| e`,
\* `{ fn g() -> T { e } }` and `if c { e }`.
KwWrappers(e) ==
    {Node("LOOP_EXPR", <<Tok("LOOP_KW"), Block(<<>>, Some(e))>>),
     Node("WHILE_EXPR", <<Tok("WHILE_KW"), Condition(None, <<e>>), BlockOf("y")>>),
     Node("WHILE_EXPR", <<Tok("WHILE_KW"), Condition(None, <<PathExpr("x")>>),
                          Block(<<>>, Some(e))>>),
     Node("FOR_EXPR", <<Tok("FOR_KW"), BindPat("a"), Tok("IN_KW"), e, BlockOf("y")>>),
     Node("FOR_EXPR", <<Tok("FOR_KW"), BindPat("a"), Tok("IN_KW"), PathExpr("x"),
                        Block(<<>>, Some(e))>>),
     LambdaExpr(<<Param(Some(BindPat("a")), None)>>, <<e>>),
     Node("BLOCK_EXPR", <<Block(<<KwFnDef("g", TRUE, e)>>, None)>>),
     IfExpr(<<Condition(None, <<PathExpr("c")>>)>>, <<Block(<<>>, Some(e))>>, None)}

\* The leaves of a file: its tokens.
Leafs(file) == {p \in Paths(file) : NodeAt(file, p).n.kids = <<>>}

\* SyntaxNode::ancestors: the node itself, its parent, and so on up to the
\* root.
ancestors(path) == [i \in 1 .. (Len(path) + 1) |-> SubSeq(path, 1, Len(path) + 1 - i)]

\* CompletionContext, the fields complete_expr_keyword reads: the leaf at
\* the cursor, the function around it (its nearest FN_DEF ancestor), and
\* the three flags of the path under the cursor.
CompletionContext_new(file, leaf, is_trivial_path, can_be_stmt, after_if) ==
    [leaf |-> leaf,
     function_syntax |->
         nth(SelectSeq(ancestors(leaf), LAMBDA a : kind(NodeAt(file, a)) = "FN_DEF"), 0),
     is_trivial_path |-> is_trivial_path,
     can_be_stmt |-> can_be_stmt,
     after_if |-> after_if]

\* LoopBodyOwner::loop_body, and FnDef::ret_type.
loop_body(ln) == child_opt(ln, {"BLOCK"})
ret_type(ln) == child_opt(ln, {"RET_TYPE"})

\* keyword: a completion item of kind Keyword with a snippet.
keyword(kw, snippet) ==
    [completion_kind |-> "Keyword", label |-> kw, kind |-> Some("Keyword"),
     snippet |-> Some(snippet)]

\* Mutant of is_in_loop_body: the walk up does not stop at a function or a
\* lambda.
RECURSIVE is_in_loop_body_no_boundary(_, _, _)
is_in_loop_body_no_boundary(file, leaf, nodes) ==
    IF nodes = <<>> THEN FALSE
    ELSE LET node == NodeAt(file, Head(nodes)) IN
         IF /\ kind(node) \in {"FOR_EXPR", "WHILE_EXPR", "LOOP_EXPR"}
            /\ IsSome(loop_body(node))
            /\ is_subrange(range(NodeAt(file, leaf)), range(Unwrap(loop_body(node))))
         THEN TRUE
         ELSE is_in_loop_body_no_boundary(file, leaf, Tail(nodes))

\* is_in_loop_body, the loop over the ancestors of the leaf that are still
\* to be visited.
RECURSIVE is_in_loop_body_from(_, _, _)
is_in_loop_body_from(file, leaf, nodes) ==
    IF nodes = <<>> THEN FALSE
    ELSE LET node == NodeAt(file, Head(nodes)) IN
         IF kind(node) = "FN_DEF" \/ kind(node) = "LAMBDA_EXPR" THEN FALSE
         ELSE IF /\ kind(node) \in {"FOR_EXPR", "WHILE_EXPR", "LOOP_EXPR"}
                 /\ IsSome(loop_body(node))
                 /\ is_subrange(range(NodeAt(file, leaf)), range(Unwrap(loop_body(node))))
         THEN TRUE
         ELSE is_in_loop_body_from(file, leaf, Tail(nodes))

\* is_in_loop_body
is_in_loop_body(file, leaf) == is_in_loop_body_from(file, leaf, ancestors(leaf))

\* Mutant of complete_return: the snippets of (statement, unit) and of
\* (non-statement, value) are exchanged.
complete_return_exchanged(file, fn_def, can_be_stmt) ==
    Some(keyword("return",
                 CASE can_be_stmt /\ IsSome(ret_type(NodeAt(file, fn_def))) -> "return $0;"
                   [] can_be_stmt /\ ~IsSome(ret_type(NodeAt(file, fn_def))) -> "return $0"
                   [] ~can_be_stmt /\ IsSome(ret_type(NodeAt(file, fn_def))) -> "return;"
                   [] OTHER -> "return"))

\* complete_return
complete_return(file, fn_def, can_be_stmt) ==
    Some(keyword("return",
                 CASE can_be_stmt /\ IsSome(ret_type(NodeAt(file, fn_def))) -> "return $0;"
                   [] can_be_stmt /\ ~IsSome(ret_type(NodeAt(file, fn_def))) -> "return;"
                   [] ~can_be_stmt /\ IsSome(ret_type(NodeAt(file, fn_def))) -> "return $0"
                   [] OTHER -> "return"))

\* Mutant of complete_expr_keyword: `continue` and `break` always end with
\* a semicolon.
complete_expr_keyword_always_semi(file, acc, ctx) ==
    IF ~ctx.is_trivial_path THEN acc
    ELSE IF ctx.function_syntax = None THEN acc
    ELSE acc
           \o <<keyword("if", "if $0 {}"), keyword("match", "match $0 {}"),
                keyword("while", "while $0 {}"), keyword("loop", "loop {$0}")>>
           \o (IF ctx.after_if
               THEN <<keyword("else", "else {$0}"), keyword("else if", "else if $0 {}")>>
               ELSE <<>>)
           \o (IF is_in_loop_body(file, ctx.leaf)
               THEN <<keyword("continue", "continue;"), keyword("break", "break;")>>
               ELSE <<>>)
           \o complete_return(file, Unwrap(ctx.function_syntax), ctx.can_be_stmt)

\* complete_expr_keyword: the Completions after the call.
complete_expr_keyword(file, acc, ctx) ==
    IF ~ctx.is_trivial_path THEN acc
    ELSE IF ctx.function_syntax = None THEN acc
    ELSE acc
           \o <<keyword("if", "if $0 {}"), keyword("match", "match $0 {}"),
                keyword("while", "while $0 {}"), keyword("loop", "loop {$0}")>>
           \o (IF ctx.after_if
               THEN <<keyword("else", "else {$0}"), keyword("else if", "else if $0 {}")>>
               ELSE <<>>)
           \o (IF is_in_loop_body(file, ctx.leaf)
               THEN IF ctx.can_be_stmt
                    THEN <<keyword("continue", "continue;"), keyword("break", "break;")>>
                    ELSE <<keyword("continue", "continue"), keyword("break", "break")>>
               ELSE <<>>)
           \o complete_return(file, Unwrap(ctx.function_syntax), ctx.can_be_stmt)

\* An edit of the file: the body's expression is wrapped into a larger one.
kw_edit_wrap(w) ==
    /\ kpc = "editing"
    /\ kw_nwraps < MaxKwWraps
    /\ kw_body' = w
    /\ kw_nwraps' = kw_nwraps + 1
    /\ UNCHANGED <<kw_ret, kw_ctx, kw_acc, kpc>>
    /\ UNCHANGED otherVarsOfKw

\* A completion request with the cursor at a leaf: the keywords of
\* complete_expr_keyword are collected into fresh Completions.
kw_complete(leaf, is_trivial_path, can_be_stmt, after_if) ==
    /\ kpc = "editing"
    /\ LET ctx == CompletionContext_new(KwFile, leaf, is_trivial_path, can_be_stmt, after_if)
       IN /\ kw_ctx' = Some(ctx)
          /\ kw_acc' = complete_expr_keyword(KwFile, <<>>, ctx)
    /\ kpc' = "completed"
    /\ UNCHANGED <<kw_body, kw_ret, kw_nwraps>>
    /\ UNCHANGED otherVarsOfKw

InitKw ==
    /\ IdleQuery
    /\ IdleGraph
    /\ IdleDfs
    /\ IdlePtr
    /\ IdleLower
    /\ kw_body = PathExpr("x")
    /\ kw_ret \in BOOLEAN
    /\ kw_nwraps = 0
    /\ kw_ctx = None
    /\ kw_acc = <<>>
    /\ kpc = "editing"

NextKw ==
    \/ \E w \in KwWrappers(kw_body) : kw_edit_wrap(w)
    \/ \E leaf \in Leafs(KwFile) : \E t \in BOOLEAN : \E s \in BOOLEAN : \E a \in BOOLEAN :
           kw_complete(leaf, t, s, a)

SpecKw == InitKw /\ [][NextKw]_vars

\* ------------------------------------------------------------------------
\* Keyword completion: properties
\* ------------------------------------------------------------------------

\* A request was answered; its context; whether complete_expr_keyword got
\* past its early returns (the path is trivial, the cursor is in a
\* function); the items offered under a label.
Completed == kpc = "completed"
Ctx == Unwrap(kw_ctx)
InFunction == Ctx.is_trivial_path /\ IsSome(Ctx.function_syntax)
ItemsOf(label) == SelectSeq(kw_acc, LAMBDA it : it.label = label)

\* Whether the function around the cursor declares a return type.
HasRetType ==
    \E c \in SeqRange(children(NodeAt(KwFile, Unwrap(Ctx.function_syntax)))) :
        kind(c) = "RET_TYPE"

\* C13: whenever keyword completion runs inside a function, exactly one
\* `return` item is offered, and its snippet follows from the statement
\* position and from the function having a return type alone: `return $0;`
\* and `return $0` for a function that returns a value, `return;` and
\* `return` for one that does not, the semicolon at statement position.
C13_ReturnSnippet ==
    (Completed /\ InFunction) =>
        ItemsOf("return")
            = << keyword("return",
                         IF HasRetType
                         THEN (IF Ctx.can_be_stmt THEN "return $0;" ELSE "return $0")
                         ELSE (IF Ctx.can_be_stmt THEN "return;" ELSE "return")) >>

\* In a function nested in a function without return type, at a position
\* that is no statement, `return $0` was offered.
C13_Witness ==
    /\ Completed
    /\ InFunction
    /\ ~kw_ret
    /\ HasRetType
    /\ ~Ctx.can_be_stmt
    /\ ItemsOf("return") = <<keyword("return", "return $0")>>

\* C14: `continue` and `break` are offered exactly when is_in_loop_body
\* holds of the leaf at the cursor, both or neither, once each; they end
\* with a semicolon exactly at statement position.
C14_ContinueBreak ==
    (Completed /\ InFunction) =>
        IF is_in_loop_body(KwFile, Ctx.leaf)
        THEN /\ ItemsOf("continue")
                    = <<keyword("continue",
                                IF Ctx.can_be_stmt THEN "continue;" ELSE "continue")>>
             /\ ItemsOf("break")
                    = <<keyword("break", IF Ctx.can_be_stmt THEN "break;" ELSE "break")>>
        ELSE ItemsOf("continue") = <<>> /\ ItemsOf("break") = <<>>

\* In a loop body, at a position that is no statement, `continue` and
\* `break` were offered without semicolon.
C14_Witness ==
    /\ Completed
    /\ InFunction
    /\ ~Ctx.can_be_stmt
    /\ is_in_loop_body(KwFile, Ctx.leaf)
    /\ ItemsOf("break") = <<keyword("break", "break")>>
    /\ ItemsOf("continue") = <<keyword("continue", "continue")>>

\* The leaf lies in the body of a loop that is among its ancestors, with no
\* function and no lambda between the loop and the leaf: the ancestor k
\* levels down the leaf's path is a loop, the next node on the path is the
\* loop's body block, and no node on the path from there on is a FN_DEF or
\* a LAMBDA_EXPR.
InBodyOfLoopAbove(file, leaf) ==
    \E k \in 0 .. (Len(leaf) - 1) :
        LET loop == NodeAt(file, SubSeq(leaf, 1, k)) IN
        /\ kind(loop) \in {"FOR_EXPR", "WHILE_EXPR", "LOOP_EXPR"}
        /\ kind(children(loop)[leaf[k + 1]]) = "BLOCK"
        /\ \A j \in 1 .. (leaf[k + 1] - 1) : kind(children(loop)[j]) # "BLOCK"
        /\ \A j \in (k + 1) .. Len(leaf) :
               kind(NodeAt(file, SubSeq(leaf, 1, j))) \notin {"FN_DEF", "LAMBDA_EXPR"}

\* C15: is_in_loop_body holds of a leaf exactly when the leaf lies in the
\* body block of a for, while or loop expression that is one of its
\* ancestors below the nearest function or lambda around it.  A loop beyond
\* that function or lambda is not seen, and a leaf in the condition or the
\* iterable of a loop is not in that loop's body.
C15_InLoopBody ==
    Completed => (is_in_loop_body(KwFile, Ctx.leaf) <=> InBodyOfLoopAbove(KwFile, Ctx.leaf))

\* The cursor was in a lambda in the body of a loop, and the loop was not
\* seen: no `break` was offered.
C15_Witness ==
    /\ Completed
    /\ InFunction
    /\ ~is_in_loop_body(KwFile, Ctx.leaf)
    /\ ItemsOf("break") = <<>>
    /\ \E k \in 0 .. (Len(Ctx.leaf) - 1) : \E j \in (k + 1) .. Len(Ctx.leaf) :
           /\ kind(NodeAt(KwFile, SubSeq(Ctx.leaf, 1, k))) = "LOOP_EXPR"
           /\ kind(NodeAt(KwFile, SubSeq(Ctx.leaf, 1, k + 1))) = "BLOCK"
           /\ kind(NodeAt(KwFile, SubSeq(Ctx.leaf, 1, j))) = "LAMBDA_EXPR"

\* ------------------------------------------------------------------------
\* Modules: their items and impl blocks, and the query functions
\* ------------------------------------------------------------------------
\* The source root holds one file, FileId 1.  Its modules are the root
\* module, ModuleId 0, whose source is the file, and the inline modules
\* `mod m { .. }` among the file's items, ModuleId k for the k-th of them.

\* Bounds of the model: the number of items of the file, and the number of
\* reads the engine answers with Canceled.
MaxItems == 2
MaxCancels == 1

\* The syntax of items.
StructDef == Node("STRUCT_DEF", <<Tok("STRUCT_KW"), NameN("S"), Tok("SEMI")>>)
ConstDef == Node("CONST_DEF", <<Tok("CONST_KW"), NameN("C"), Tok("SEMI")>>)
TypeDef == Node("TYPE_DEF", <<Tok("TYPE_KW"), NameN("A"), Tok("SEMI")>>)
MacroCall(t) ==
    Node("MACRO_CALL",
         <<PathOf(t), Tok("EXCL"), Node("TOKEN_TREE", <<Tok("L_PAREN"), Tok("R_PAREN")>>)>>)
ItemList(its) == Node("ITEM_LIST", <<Tok("L_CURLY")>> \o its \o <<Tok("R_CURLY")>>)
\* `impl types item_list`, each part as the parser found it.
ImplBlock(types, item_list) == Node("IMPL_BLOCK", <<Tok("IMPL_KW")>> \o types \o item_list)
Module(its) == Node("MODULE", <<Tok("MOD_KW"), NameN("m"), ItemList(its)>>)

\* The impl blocks written: `impl S { fn f; }`, `impl T for &S { fn f; const
\* C; type A; }`, and `impl` without type and without item list.
ImplBlocks ==
    {ImplBlock(<<PathType("S")>>, <<ItemList(<<FnDef(None, None)>>)>>),
     ImplBlock(<<PathType("T"), Tok("FOR_KW"),
                 Node("REFERENCE_TYPE", <<Tok("AMP"), PathType("S")>>)>>,
               <<ItemList(<<FnDef(None, None), ConstDef, TypeDef>>)>>),
     ImplBlock(<<>>, <<>>)}

\* The items a file is made of: functions, structs, macro calls, impl
\* blocks, and inline modules that hold some of these.
TopItems ==
    {FnDef(None, None), StructDef, MacroCall("m"), MacroCall("e")}
        \cup ImplBlocks
        \cup {Module(<<ImplBlock(<<PathType("S")>>, <<ItemList(<<FnDef(None, None)>>)>>)>>),
              Module(<<MacroCall("m"), StructDef>>)}

\* What the macro expander answers: the file a macro call expands to.  `m`
\* expands to a function and a call of `n`, `n` to a struct, and `e` to
\* nothing.
Expansion(name) ==
    CASE name = "m" -> Node("SOURCE_FILE", <<FnDef(None, None), MacroCall("n")>>)
      [] name = "n" -> Node("SOURCE_FILE", <<StructDef>>)
      [] OTHER -> Node("SOURCE_FILE", <<>>)

\* The kinds `ast::ModuleItem::cast` and `ast::ImplItem::cast` accept.
ModuleItemKinds ==
    {"STRUCT_DEF", "ENUM_DEF", "FN_DEF", "TRAIT_DEF", "TYPE_DEF", "IMPL_BLOCK",
     "USE_ITEM", "EXTERN_CRATE_ITEM", "CONST_DEF", "STATIC_DEF", "MODULE"}
ImplItemKinds == {"FN_DEF", "CONST_DEF", "TYPE_DEF"}

\* ModuleItemOwner::items, and items_with_macros, which yields the macro
\* calls among the items as well.
items(ln) == ast_children(ln, ModuleItemKinds)
items_with_macros(ln) == ast_children(ln, ModuleItemKinds \cup {"MACRO_CALL"})

\* ImplBlock::target, target_type and target_trait.
ImplBlock_target(ln) ==
    <<nth(ast_children(ln, TypeRefKinds), 0), nth(ast_children(ln, TypeRefKinds), 1)>>
ImplBlock_target_type(ln) ==
    LET t == ImplBlock_target(ln) IN
    IF (IsSome(t[1]) /\ ~IsSome(t[2])) THEN t[1]
    ELSE IF IsSome(t[2]) THEN t[2]
    ELSE None
ImplBlock_target_trait(ln) ==
    LET t == ImplBlock_target(ln) IN
    IF IsSome(t[1]) /\ IsSome(t[2]) THEN t[1] ELSE None

\* The database, as the query functions see it: the file, and the reads the
\* engine answers with Canceled.  A read is named by the query and the
\* module it is about (0 where the query is about no module).
Db(its, cancel) == [file |-> Node("SOURCE_FILE", its), cancel |-> cancel]
Engine(db, point, v) == IF point \in db.cancel THEN Canceled ELSE v

\* FileId of the file, and HirFileId: a FileId, or the file a macro call
\* expands to, named by the call's location.
TheFile == [file |-> 1, macro |-> None]
HirFileId_from(loc) == [file |-> 0, macro |-> Some(loc)]

\* SourceFileItems::id_of_unchecked: the id of an item of a file; the
\* pointer of the item's node stands for it.
id_of_unchecked(ln) == LocalSyntaxPtr_new(ln)

\* ModuleTree: the ids of the modules, in order; and the source of a module.
ModuleNodes(file) ==
    SelectSeq(ast_children(Root(file), {"MODULE"}),
              LAMBDA c : IsSome(child_opt(c, {"ITEM_LIST"})))
modules(file) == [i \in 1 .. (Len(ModuleNodes(file)) + 1) |-> i - 1]
ModuleSourceOf(file, module_id) ==
    IF module_id = 0
    THEN [tag |-> "SourceFile", file_id |-> TheFile, node |-> Root(file), item_id |-> None]
    ELSE [tag |-> "Module", file_id |-> TheFile, node |-> ModuleNodes(file)[module_id],
          item_id |-> Some(id_of_unchecked(ModuleNodes(file)[module_id]))]

\* db.hir_source_file: the file itself, or the expansion of the macro call
\* of the file that a location names.
MacroNameAt(file, item_id) ==
    LET ln == CHOOSE ln \in {NodeAt(file, path) : path \in Paths(file)} :
                  LocalSyntaxPtr_new(ln) = item_id
    IN as_name(Unwrap(child_opt_of(child_opt_of(child_opt(ln, {"PATH"}),
                                                {"PATH_SEGMENT"}), {"NAME_REF"})))
hir_source_file(db, file_id) ==
    IF file_id = TheFile THEN db.file
    ELSE Expansion(MacroNameAt(db.file, Unwrap(Unwrap(file_id.macro).source_item_id.item_id)))

\* DefLoc and MacroCallLoc.  Interning a location gives equal ids to equal
\* locations only, so the location stands for its id.
DefLoc(def_kind, module_id, file_id, item_id) ==
    [kind |-> def_kind, module_id |-> module_id,
     source_item_id |-> [file_id |-> file_id, item_id |-> item_id]]
MacroCallLoc(module_id, file_id, item_id) ==
    [module_id |-> module_id,
     source_item_id |-> [file_id |-> file_id, item_id |-> item_id]]

\* Module::from_module_id and Module::defenition_source.
Module_from_module_id(db, module_id) ==
    Engine(db, <<"from_module_id", 0>>,
           Ok([def_id |-> DefLoc("Module", module_id, TheFile,
                                 ModuleSourceOf(db.file, module_id).item_id)]))
defenition_source(db, module) ==
    Engine(db, <<"defenition_source", 0>>,
           Ok(ModuleSourceOf(db.file, module.def_id.module_id)))

\* ------------------------------------------------------------------------
\* Impl blocks
\* ------------------------------------------------------------------------

\* ImplData::from_ast, one item of the impl: its DefId and what it is.
ImplItem_from_ast(module_loc, item_node) ==
    [tag |-> CASE kind(item_node) = "FN_DEF" -> "Method"
               [] kind(item_node) = "CONST_DEF" -> "Const"
               [] kind(item_node) = "TYPE_DEF" -> "Type",
     def_id |-> DefLoc(IF kind(item_node) = "FN_DEF" THEN "Function" ELSE "Item",
                       module_loc.module_id, module_loc.source_item_id.file_id,
                       Some(id_of_unchecked(item_node)))]

\* ImplItem::def_id
ImplItem_def_id(impl_item) == impl_item.def_id

\* ImplData::from_ast.  Both target_trait and target_type are read off
\* `node.target_type()`.
RECURSIVE ImplItems_from_ast(_, _)
ImplItems_from_ast(module_loc, ns) ==
    IF ns = <<>> THEN <<>>
    ELSE <<ImplItem_from_ast(module_loc, Head(ns))>>
             \o ImplItems_from_ast(module_loc, Tail(ns))
ImplData_from_ast(module_loc, node) ==
    [target_trait |-> IF IsSome(ImplBlock_target_type(node))
                      THEN Some(TypeRef_from_ast(Unwrap(ImplBlock_target_type(node))))
                      ELSE None,
     target_type |-> TypeRef_from_ast_opt(ImplBlock_target_type(node)),
     items |-> IF IsSome(child_opt(node, {"ITEM_LIST"}))
               THEN ImplItems_from_ast(module_loc,
                        ast_children(Unwrap(child_opt(node, {"ITEM_LIST"})), ImplItemKinds))
               ELSE <<>>]

\* ModuleImplBlocks::new.  The arena `impls` holds the impl of id i at
\* position i + 1.
ModuleImplBlocks_new == [impls |-> <<>>, impls_by_def |-> EmptyMap]

\* ModuleImplBlocks::collect, its loop over the impl blocks found.
RECURSIVE collect_loop(_, _, _)
collect_loop(self, module_loc, blocks) ==
    IF blocks = <<>> THEN self
    ELSE Bind(ImplData_from_ast(module_loc, Head(blocks)), LAMBDA impl_block :
         Bind(Len(self.impls), LAMBDA id :
         Bind({ImplItem_def_id(impl_block.items[i]) : i \in 1 .. Len(impl_block.items)},
              LAMBDA defs :
         collect_loop([impls |-> Append(self.impls, impl_block),
                       impls_by_def |->
                           [d \in (DOMAIN self.impls_by_def) \cup defs |->
                               IF d \in defs THEN id ELSE self.impls_by_def[d]]],
                      module_loc, Tail(blocks)))))

\* ModuleImplBlocks::collect: the impl blocks are looked for among the
\* children of the node of the module's source, the SOURCE_FILE or the
\* MODULE node.
ModuleImplBlocks_collect(self, db, module) ==
    Bind(defenition_source(db, module), LAMBDA source :
    IF ~IsOk(source) THEN source
    ELSE Ok(collect_loop(self, module.def_id,
                         ast_children(source.value.node, {"IMPL_BLOCK"}))))

\* impls_in_module
impls_in_module(db, module_id) ==
    Bind(Module_from_module_id(db, module_id), LAMBDA module :
    IF ~IsOk(module) THEN module
    ELSE ModuleImplBlocks_collect(ModuleImplBlocks_new, db, module.value))

\* ImplBlock::containing
ImplBlock_containing(module_impl_blocks, def_id) ==
    IF def_id \in DOMAIN module_impl_blocks.impls_by_def
    THEN Some([module_impl_blocks |-> module_impl_blocks,
               impl_id |-> module_impl_blocks.impls_by_def[def_id]])
    ELSE None

\* ------------------------------------------------------------------------
\* The query functions
\* ------------------------------------------------------------------------

\* db.module_tree
db_module_tree(db) == Engine(db, <<"module_tree", 0>>, Ok([modules |-> modules(db.file)]))

\* InputModuleItems::add_item: the item is recorded with the file it was
\* found in.
add_item(acc, file_id, item) ==
    Append(acc, [file_id |-> file_id, item_id |-> id_of_unchecked(item),
                 kind |-> kind(item)])

\* The loop over the items of the expansion of a macro call.
RECURSIVE add_items(_, _, _)
add_items(acc, file_id, its) ==
    IF its = <<>> THEN acc
    ELSE add_items(add_item(acc, file_id, Head(its)), file_id, Tail(its))

\* Mutant of fill: the items of an expansion are recorded under the file of
\* the module.
RECURSIVE fill_same_file(_, _, _, _, _)
fill_same_file(db, module_id, file_id, acc, its) ==
    IF its = <<>> THEN acc
    ELSE fill_same_file(db, module_id, file_id,
              IF kind(Head(its)) # "MACRO_CALL"
              THEN add_item(acc, file_id, Head(its))
              ELSE Bind(HirFileId_from(MacroCallLoc(module_id, file_id,
                                                    Some(id_of_unchecked(Head(its))))),
                        LAMBDA macro_file :
                        add_items(acc, file_id,
                                  items(Root(hir_source_file(db, macro_file))))),
              Tail(its))

\* input_module_items, the closure `fill`: an item is added under the
\* module's file; a macro call is replaced by the items of the file it
\* expands to, added under that file, and the macro calls in there are
\* passed over (`items()` does not yield them).
RECURSIVE fill(_, _, _, _, _)
fill(db, module_id, file_id, acc, its) ==
    IF its = <<>> THEN acc
    ELSE fill(db, module_id, file_id,
              IF kind(Head(its)) # "MACRO_CALL"
              THEN add_item(acc, file_id, Head(its))
              ELSE Bind(HirFileId_from(MacroCallLoc(module_id, file_id,
                                                    Some(id_of_unchecked(Head(its))))),
                        LAMBDA macro_file :
                        add_items(acc, macro_file,
                                  items(Root(hir_source_file(db, macro_file))))),
              Tail(its))

\* input_module_items
input_module_items(db, module_id) ==
    Bind(db_module_tree(db), LAMBDA module_tree :
    IF ~IsOk(module_tree) THEN module_tree
    ELSE Bind(ModuleSourceOf(db.file, module_id), LAMBDA source :
         IF source.tag = "SourceFile"
         THEN Ok(fill(db, module_id, source.file_id, <<>>, items_with_macros(source.node)))
         ELSE IF IsSome(child_opt(source.node, {"ITEM_LIST"}))
         THEN Ok(fill(db, module_id, source.file_id, <<>>,
                      items_with_macros(Unwrap(child_opt(source.node, {"ITEM_LIST"})))))
         ELSE Ok(<<>>)))

\* db.input_module_items
db_input_module_items(db, module_id) ==
    Engine(db, <<"input_module_items", module_id>>, input_module_items(db, module_id))

\* Mutant of collect_input: a module whose items are cancelled is left out.
RECURSIVE collect_input_skip(_, _)
collect_input_skip(db, ids) ==
    IF ids = <<>> THEN Ok(EmptyMap)
    ELSE Bind(db_input_module_items(db, Head(ids)), LAMBDA its :
         Bind(collect_input_skip(db, Tail(ids)), LAMBDA rest :
         IF ~IsOk(its) THEN rest
         ELSE Ok(MapInsert(rest.value, Head(ids), its.value))))

\* item_map, `.map(|id| ..).collect::<Cancelable<FxHashMap<_, _>>>()`: the
\* first module whose items are cancelled ends the collection.
RECURSIVE collect_input(_, _)
collect_input(db, ids) ==
    IF ids = <<>> THEN Ok(EmptyMap)
    ELSE Bind(db_input_module_items(db, Head(ids)), LAMBDA its :
         IF ~IsOk(its) THEN its
         ELSE Bind(collect_input(db, Tail(ids)), LAMBDA rest :
              IF ~IsOk(rest) THEN rest
              ELSE Ok(MapInsert(rest.value, Head(ids), its.value))))

\* Resolver::resolve: the ItemMap of the input, unless cancelled.
Resolver_resolve(db, input) == Engine(db, <<"resolve", 0>>, Ok([resolved |-> input]))

\* item_map
item_map(db) ==
    Bind(db_module_tree(db), LAMBDA module_tree :
    IF ~IsOk(module_tree) THEN module_tree
    ELSE Bind(collect_input(db, module_tree.value.modules), LAMBDA input :
         IF ~IsOk(input) THEN input
         ELSE Bind(Resolver_resolve(db, input.value), LAMBDA res :
              IF ~IsOk(res) THEN res ELSE Ok(res.value))))

\* The function whose body is asked for: `fn f { x }`.
BodyFn == At(FnDef(None, Some(PathExpr("x"))), 0)

\* db.body_syntax_mapping, body_hir, db.body_hir and fn_scopes, for the
\* DefId of that function.
db_body_syntax_mapping(db) ==
    Engine(db, <<"body_syntax_mapping", 0>>,
           body_syntax_mapping(Engine(db, <<"def_resolve", 0>>, Ok("Function")), BodyFn))
body_hir(db) ==
    Bind(db_body_syntax_mapping(db), LAMBDA r :
    IF ~IsOk(r) THEN r ELSE Ok(r.value.body))
db_body_hir(db) == Engine(db, <<"body_hir", 0>>, body_hir(db))
fn_scopes(db) ==
    Bind(db_body_hir(db), LAMBDA body :
    IF ~IsOk(body) THEN body ELSE Ok([scopes_of |-> body.value]))

\* The queries, and a call of one of them.
Queries ==
    {"item_map", "input_module_items", "fn_scopes", "body_hir", "body_syntax_mapping",
     "impls_in_module"}
RunQuery(db, q, module_id) ==
    CASE q = "item_map" -> item_map(db)
      [] q = "input_module_items" -> input_module_items(db, module_id)
      [] q = "fn_scopes" -> fn_scopes(db)
      [] q = "body_hir" -> body_hir(db)
      [] q = "body_syntax_mapping" ->
             body_syntax_mapping(Engine(db, <<"def_resolve", 0>>, Ok("Function")), BodyFn)
      [] q = "impls_in_module" -> impls_in_module(db, module_id)

\* The reads the engine can answer with Canceled.
ReadPoints ==
    {<<n, 0>> : n \in {"module_tree", "resolve", "def_resolve", "body_syntax_mapping",
                       "body_hir", "from_module_id", "defenition_source"}}
        \cup {<<"input_module_items", k>> : k \in 0 .. MaxItems}

NoQuery == [query |-> "none", module_id |-> 0, cancel |-> {}, result |-> Panic]

\* An edit of the file: an item is added at its end.
add_top_item(it) ==
    /\ Len(q_items) < MaxItems
    /\ q_items' = Append(q_items, it)
    /\ q_last' = NoQuery
    /\ UNCHANGED q_cancel
    /\ UNCHANGED otherVarsOfQuery

\* New input arrives: from now on the engine answers a read with Canceled.
cancel(point) ==
    /\ Cardinality(q_cancel) < MaxCancels
    /\ point \notin q_cancel
    /\ q_cancel' = q_cancel \cup {point}
    /\ q_last' = NoQuery
    /\ UNCHANGED q_items
    /\ UNCHANGED otherVarsOfQuery

\* A query is made, about a module of the file where it is about a module.
Call_query(q, module_id) ==
    /\ module_id < Len(modules(Db(q_items, q_cancel).file))
    /\ (q \notin {"input_module_items", "impls_in_module"}) => module_id = 0
    /\ q_last' = [query |-> q, module_id |-> module_id, cancel |-> q_cancel,
                  result |-> RunQuery(Db(q_items, q_cancel), q, module_id)]
    /\ UNCHANGED <<q_items, q_cancel>>
    /\ UNCHANGED otherVarsOfQuery

InitQuery ==
    /\ IdleGraph
    /\ IdleDfs
    /\ IdlePtr
    /\ IdleLower
    /\ IdleKw
    /\ q_items = <<>>
    /\ q_cancel = {}
    /\ q_last = NoQuery

NextQuery ==
    \/ \E it \in TopItems : add_top_item(it)
    \/ \E point \in ReadPoints : cancel(point)
    \/ \E q \in Queries, module_id \in 0 .. MaxItems : Call_query(q, module_id)

SpecQuery == InitQuery /\ [][NextQuery]_vars

\* ------------------------------------------------------------------------
\* Properties of the impl blocks and of the query functions
\* ------------------------------------------------------------------------

\* The query made last gave a value, and it was the query q.
Answered(q) == q_last.query = q /\ IsOk(q_last.result)

\* The impl blocks the code looks at for the module of the last query: the
\* IMPL_BLOCK children of the node of the module's source.
BlocksSeen ==
    ast_children(ModuleSourceOf(Db(q_items, {}).file, q_last.module_id).node, {"IMPL_BLOCK"})

\* The impl blocks written directly in the module of the last query: the
\* file's own for the root module, those of the item list for `mod m { .. }`.
BlocksOfModule ==
    LET source == ModuleSourceOf(Db(q_items, {}).file, q_last.module_id) IN
    IF source.tag = "SourceFile" THEN ast_children(source.node, {"IMPL_BLOCK"})
    ELSE ast_children(Unwrap(child_opt(source.node, {"ITEM_LIST"})), {"IMPL_BLOCK"})

\* The definition ids of the members of an impl block of the module of the
\* last query, read off the syntax.
MemberDefIds(block) ==
    LET item_list == child_opt(block, {"ITEM_LIST"})
        members == IF IsSome(item_list)
                   THEN ast_children(Unwrap(item_list), ImplItemKinds) ELSE <<>>
    IN {DefLoc(IF kind(members[k]) = "FN_DEF" THEN "Function" ELSE "Item",
               q_last.module_id, TheFile, Some(id_of_unchecked(members[k]))) :
            k \in 1 .. Len(members)}

\* C22: every impl block lowered by ImplData::from_ast has a target type, the
\* placeholder when the syntax has no type; its target trait is present only
\* when the syntax has two types, and then it is the first of them and the
\* target type is the second; with one type there is no target trait.
C22_TargetTypeAndTrait ==
    Answered("impls_in_module") =>
        \A i \in 1 .. Len(BlocksSeen) :
            LET types == ast_children(BlocksSeen[i], TypeRefKinds)
                data == q_last.result.value.impls[i]
            IN CASE Len(types) = 0 ->
                        /\ data.target_type = [tag |-> "Error"]
                        /\ data.target_trait = None
                 [] Len(types) = 1 ->
                        /\ data.target_type = TypeRef_from_ast(types[1])
                        /\ data.target_trait = None
                 [] OTHER ->
                        /\ data.target_type = TypeRef_from_ast(types[2])
                        /\ data.target_trait = Some(TypeRef_from_ast(types[1]))

\* C23: the impl blocks written directly in a module get the ids 0, 1, .. in
\* source order; the index maps the definition id of every member of impl i
\* to i; ImplBlock::containing gives the impl that lists the definition, and
\* None for a definition that is a member of no impl of the module.
C23_DenseIdsAndIndex ==
    Answered("impls_in_module") =>
        LET blocks == q_last.result.value IN
        /\ Len(blocks.impls) = Len(BlocksOfModule)
        /\ \A i \in 1 .. Len(BlocksOfModule) :
               /\ {ImplItem_def_id(blocks.impls[i].items[k]) :
                       k \in 1 .. Len(blocks.impls[i].items)}
                      = MemberDefIds(BlocksOfModule[i])
               /\ \A d \in MemberDefIds(BlocksOfModule[i]) :
                      /\ d \in DOMAIN blocks.impls_by_def
                      /\ blocks.impls_by_def[d] = i - 1
                      /\ ImplBlock_containing(blocks, d)
                             = Some([module_impl_blocks |-> blocks, impl_id |-> i - 1])
        /\ \A d \in DOMAIN blocks.impls_by_def :
               \E i \in 1 .. Len(BlocksOfModule) : d \in MemberDefIds(BlocksOfModule[i])
        /\ ImplBlock_containing(blocks, DefLoc("Function", q_last.module_id, TheFile, None))
               = None

\* The reads a query makes of the engine when none of them is cancelled,
\* those of the queries it reads included.
Reads(q, module_id) ==
    CASE q = "item_map" ->
             {<<"module_tree", 0>>, <<"resolve", 0>>}
                 \cup {<<"input_module_items", k>> :
                           k \in SeqRange(modules(Db(q_items, {}).file))}
      [] q = "input_module_items" -> {<<"module_tree", 0>>}
      [] q = "fn_scopes" ->
             {<<"body_hir", 0>>, <<"body_syntax_mapping", 0>>, <<"def_resolve", 0>>}
      [] q = "body_hir" -> {<<"body_syntax_mapping", 0>>, <<"def_resolve", 0>>}
      [] q = "body_syntax_mapping" -> {<<"def_resolve", 0>>}
      [] q = "impls_in_module" -> {<<"from_module_id", 0>>, <<"defenition_source", 0>>}

\* C24: when a read that a query function makes is answered with Canceled,
\* the query function returns Canceled, and a query function that does not
\* return Canceled returns what it returns when nothing is cancelled, never a
\* value built from a part of its reads.
C24_CancellationPropagates ==
    (q_last.query # "none") =>
        /\ (q_last.cancel \cap Reads(q_last.query, q_last.module_id) # {})
               => q_last.result = Canceled
        /\ (q_last.result # Canceled)
               => q_last.result = RunQuery(Db(q_items, {}), q_last.query, q_last.module_id)

\* item_map is asked for a file with an inline module while the items of
\* that module are cancelled, those of the root module are not.
C24_Witness ==
    /\ q_last.query = "item_map"
    /\ q_last.cancel = {<<"input_module_items", 1>>}
    /\ Len(modules(Db(q_items, {}).file)) >= 2
    /\ q_last.result = Canceled

\* The direct items of the module of the last query, macro calls included,
\* and the name of the macro a call names.
DirectItems ==
    LET source == ModuleSourceOf(Db(q_items, {}).file, q_last.module_id) IN
    IF source.tag = "SourceFile"
    THEN ast_children(source.node, ModuleItemKinds \cup {"MACRO_CALL"})
    ELSE ast_children(Unwrap(child_opt(source.node, {"ITEM_LIST"})),
                      ModuleItemKinds \cup {"MACRO_CALL"})
MacroName(call) ==
    as_name(Unwrap(child_opt_of(child_opt_of(child_opt(call, {"PATH"}),
                                             {"PATH_SEGMENT"}), {"NAME_REF"})))

\* What C26 says is recorded for one direct item: the item under the
\* module's file, or, for a macro call, the items at the top of the file the
\* call expands to, under that file, and none of the macro calls in there.
RecordedFor(item) ==
    IF kind(item) # "MACRO_CALL"
    THEN {[file_id |-> TheFile, item_id |-> id_of_unchecked(item), kind |-> kind(item)]}
    ELSE LET expansion == Root(Expansion(MacroName(item)))
             macro_file == HirFileId_from(MacroCallLoc(q_last.module_id, TheFile,
                                                       Some(id_of_unchecked(item))))
         IN {[file_id |-> macro_file, item_id |-> id_of_unchecked(e), kind |-> kind(e)] :
                 e \in {c \in SeqRange(children(expansion)) :
                            kind(c) \in ModuleItemKinds}}

\* C26: input_module_items records every ordinary direct item of the module
\* under the module's file, and for every macro call among the direct items
\* the items of its expansion under the expansion's file, one level only: a
\* macro call inside an expansion adds nothing.  Nothing else is recorded,
\* and nothing twice.
C26_OneLevelExpansion ==
    Answered("input_module_items") =>
        LET recorded == q_last.result.value IN
        /\ SeqRange(recorded) = UNION {RecordedFor(DirectItems[i]) : i \in 1 .. Len(DirectItems)}
        /\ \A i, j \in 1 .. Len(recorded) : recorded[i] = recorded[j] => i = j
        /\ \A i \in 1 .. Len(recorded) : recorded[i].kind # "MACRO_CALL"

\* The items of a module that holds a call of `m` and a struct were asked
\* for: the function of the expansion of `m` is recorded under the file of
\* the expansion, the struct under the module's file, and the struct that
\* the call of `n` inside the expansion would give is not recorded.
C26_Witness ==
    /\ Answered("input_module_items")
    /\ \E i \in 1 .. Len(DirectItems) :
           kind(DirectItems[i]) = "MACRO_CALL" /\ MacroName(DirectItems[i]) = "m"
    /\ \E i \in 1 .. Len(q_last.result.value) :
           /\ q_last.result.value[i].kind = "FN_DEF"
           /\ q_last.result.value[i].file_id # TheFile
    /\ \E i \in 1 .. Len(q_last.result.value) :
           /\ q_last.result.value[i].kind = "STRUCT_DEF"
           /\ q_last.result.value[i].file_id = TheFile
    /\ \A i \in 1 .. Len(q_last.result.value) :
           q_last.result.value[i].kind = "STRUCT_DEF"
               => q_last.result.value[i].file_id = TheFile

====
